---- MODULE Spec2Model ----
(***************************************************************************)
(* Error trees (err-tree), their tree-like rendering (display.rs), the     *)
(* string-only canonical tree (serde-err-tree string_tree.rs / tree.rs)    *)
(* and the Ser serialization adapter (adapter.rs) with its JSON round trip *)
(* as exercised by serde_tests.rs.                                         *)
(*                                                                         *)
(* Text is a sequence of one-character strings.  An error value is a       *)
(* record [kind, msg, sources]: kind "Error" is a std::error::Error link   *)
(* (sources holds its source(), zero or one link), kind "Tree" is an       *)
(* ErrorTree (sources holds what sources() yields, each element carrying   *)
(* the ErrorTreeSource tag in its kind).                                   *)
(***************************************************************************)
EXTENDS Integers, Sequences, FiniteSets, TLC

VARIABLES tree, iter, pc, json, dtree, json2, dtree2, stree, out, sout, fw, mishap, last, dbg, rs, cv, obj, seqs

vars == <<tree, iter, pc, json, dtree, json2, dtree2, stree, out, sout, fw, mishap, last, dbg, rs, cv, obj, seqs>>

(***************************************************************************)
(* Bounds and input alphabets                                              *)
(***************************************************************************)

\* Largest number of nodes (tree nodes plus chain links) of an error tree.
MaxNodes == 5

\* Largest number of nodes of a Mishap built by constructor calls, and the
\* largest number of calls that build one.
MaxMishapNodes == 4

MaxCalls == 3

\* Largest number of nodes of a tree rendered and converted concurrently, or
\* put behind ownership wrappers.
MaxConcNodes == 4

\* Largest number of ownership wrappers around a tree.
MaxWraps == 2

\* Largest number of nodes of each of two trees rendered side by side.
MaxPairNodes == 4

\* Display strings of the nodes: a single-line and a multi-line message.
Plain == <<"a">>

MultiLine == <<"b", "\n", "c">>

Msgs == { Plain, MultiLine }

\* A message with an empty line between two lines of text.
BlankLine == <<"b", "\n", "\n", "c">>

\* A second single-line message.
Other == <<"d">>

\* The messages of several lines.
LineMsgs == { MultiLine, BlankLine }

\* The iterator an ErrorTree implementation boxes in sources(): "slice" is
\* slice::Iter / option::IntoIter (mapped), whose size_hint is exact, as in
\* every implementation of this repository; "filter" is an iterator adaptor
\* whose size_hint reports a lower bound of 0 (Filter, FilterMap, FlatMap).
IterKinds == { "slice", "filter" }

(***************************************************************************)
(* Error values                                                            *)
(***************************************************************************)

ErrorLink(m, src) == [kind |-> "Error", msg |-> m, sources |-> src]

TreeNode(m, srcs) == [kind |-> "Tree", msg |-> m, sources |-> srcs]

\* The error trees drawn as inputs: every shape of up to MaxNodes nodes, in
\* which at most one node carries the multi-line message and all the others
\* the single-line one.  The flag ml of the operators below says whether the
\* multi-line message occurs (exactly once) in the values built.

RECURSIVE ChainsE(_, _)
\* Leaf chains of exactly n links.
ChainsE(n, ml) ==
    IF n = 1 THEN { ErrorLink(IF ml THEN MultiLine ELSE Plain, <<>>) }
    ELSE { ErrorLink(Plain, <<c>>) : c \in ChainsE(n - 1, ml) }
         \cup (IF ml THEN { ErrorLink(MultiLine, <<c>>) : c \in ChainsE(n - 1, FALSE) }
               ELSE {})

\* The ways to place the multi-line message in the head or in the rest of a
\* sequence.
Splits(ml) == IF ml THEN { <<TRUE, FALSE>>, <<FALSE, TRUE>> } ELSE { <<FALSE, FALSE>> }

RECURSIVE TreesE(_, _), SourceSeqsE(_, _)
\* Error trees of exactly n nodes.
TreesE(n, ml) ==
    { TreeNode(Plain, ss) : ss \in SourceSeqsE(n - 1, ml) }
    \cup (IF ml THEN { TreeNode(MultiLine, ss) : ss \in SourceSeqsE(n - 1, FALSE) }
          ELSE {})

\* Source sequences whose elements have n nodes in total.
SourceSeqsE(n, ml) ==
    IF n = 0 THEN (IF ml THEN {} ELSE { <<>> })
    ELSE UNION { { <<s>> \o rest : s \in ChainsE(ks[1], ks[2][1]) \cup TreesE(ks[1], ks[2][1]),
                                   rest \in SourceSeqsE(n - ks[1], ks[2][2]) }
                 : ks \in (1..n) \X Splits(ml) }

Trees == UNION { TreesE(n, ml) : n \in 1..MaxNodes, ml \in BOOLEAN }

(***************************************************************************)
(* The capabilities: Display, Error::source, ErrorTree::sources            *)
(***************************************************************************)

\* fmt::Display of an error or an error tree: its message.
display(e) == e.msg

\* std::error::Error::source(): the next link of the chain, as an Option
\* (a sequence of length 0 or 1).
source(error) == error.sources

\* ErrorTree::sources(): the ordered sources of a tree node.
sources(t) == t.sources

\* Iterator::size_hint().0 of the iterator sources() returns.
size_hint_lower(t, it) == IF it = "slice" THEN Len(sources(t)) ELSE 0

(***************************************************************************)
(* indent_write::fmt::IndentWriter over a fmt::Write sink                  *)
(*                                                                         *)
(* A writer is [sink, layers, writes, failAt, err]: the text the sink has   *)
(* accepted, the stack of IndentWriters wrapped around it (innermost       *)
(* wrapper last), the number of write_str calls the sink has received, the *)
(* call the sink answers with Err (0: none), and the fmt::Result of the    *)
(* last operation (TRUE: Err).                                             *)
(***************************************************************************)

\* A sink whose k-th write_str call fails; it accepts every other call.
FailingWriter(k) ==
    [sink |-> <<>>, layers |-> <<>>, writes |-> 0, failAt |-> k, err |-> FALSE]

\* A String: its write_str never fails.
NewWriter == FailingWriter(0)

\* write_str of the sink itself.
sink_write_str(f, s) ==
    IF f.writes + 1 = f.failAt
    THEN [f EXCEPT !.writes = @ + 1, !.err = TRUE]
    ELSE [f EXCEPT !.sink = @ \o s, !.writes = @ + 1, !.err = FALSE]

\* IndentWriter::new(indent, f)
IndentWriter_new(indent, f) ==
    [f EXCEPT !.layers = Append(@, [indent |-> indent, need_indent |-> TRUE])]

\* IndentWriter::new_skip_initial(indent, f)
IndentWriter_new_skip_initial(indent, f) ==
    [f EXCEPT !.layers = Append(@, [indent |-> indent, need_indent |-> FALSE])]

\* IndentWriter::into_inner, or the wrapper going out of scope.
into_inner(f) == [f EXCEPT !.layers = SubSeq(@, 1, Len(@) - 1)]

RECURSIVE PosNewline(_, _)
\* Index of the first "\n" of s at or after i, 0 when there is none.
PosNewline(s, i) ==
    IF i > Len(s) THEN 0
    ELSE IF s[i] = "\n" THEN i
    ELSE PosNewline(s, i + 1)

RECURSIVE PosNonNewline(_, _)
\* Index of the first character of s at or after i that is not "\n", or 0.
PosNonNewline(s, i) ==
    IF i > Len(s) THEN 0
    ELSE IF s[i] # "\n" THEN i
    ELSE PosNonNewline(s, i + 1)

RECURSIVE iw_write_str(_, _, _)
\* write_str on the writer at depth lvl of the stack (0 is the sink itself).
iw_write_str(f, lvl, s) ==
    IF lvl = 0 THEN sink_write_str(f, s)
    ELSE IF ~f.layers[lvl].need_indent
    THEN LET p == PosNewline(s, 1) IN
         IF p = 0 THEN iw_write_str(f, lvl - 1, s)
         ELSE LET f1 == iw_write_str(f, lvl - 1, SubSeq(s, 1, p))
                  f2 == [f1 EXCEPT !.layers[lvl].need_indent = TRUE]
              IN  IF f1.err THEN f1
                  ELSE iw_write_str(f2, lvl, SubSeq(s, p + 1, Len(s)))
    ELSE LET p == PosNonNewline(s, 1) IN
         IF p = 0 THEN iw_write_str(f, lvl - 1, s)
         ELSE LET f1 == iw_write_str(f, lvl - 1, SubSeq(s, 1, p - 1))
                  f2 == iw_write_str(f1, lvl - 1, f.layers[lvl].indent)
                  f3 == [f2 EXCEPT !.layers[lvl].need_indent = FALSE]
              IN  IF f1.err THEN f1
                  ELSE IF f2.err THEN f2
                  ELSE iw_write_str(f3, lvl, SubSeq(s, p, Len(s)))

\* fmt::Write::write_str on the outermost writer.
write_str(f, s) == iw_write_str(f, Len(f.layers), s)

RECURSIVE write_fmt(_, _)
\* write!/writeln!: one write_str per non-empty piece of the format.
write_fmt(f, pieces) ==
    IF pieces = <<>> THEN f
    ELSE LET f1 == IF Head(pieces) = <<>> THEN f ELSE write_str(f, Head(pieces))
         IN  IF f1.err THEN f1 ELSE write_fmt(f1, Tail(pieces))

(***************************************************************************)
(* The rendering engine (err-tree/src/display.rs)                          *)
(***************************************************************************)

Indent2 == <<" ", " ">>

Indent4 == <<" ", " ", " ", " ">>

\* The literal of writeln!(f, "\n\nCaused by:\n") in display_tree.
CausedByTree ==
    <<"\n", "\n", "C", "a", "u", "s", "e", "d", " ", "b", "y", ":", "\n", "\n">>

\* The literal of writeln!(f, "\n\nCaused by:") in display_error.
CausedByError ==
    <<"\n", "\n", "C", "a", "u", "s", "e", "d", " ", "b", "y", ":", "\n">>

RECURSIVE display_nested_error_links_as_entries(_, _, _)

RECURSIVE display_nested_error_single_loop(_, _)
\* The while-let loop of display_nested_error, DisplayKind::Single arm.
display_nested_error_single_loop(f, next) ==
    IF next = <<>> THEN f
    ELSE LET src    == next[1]
             indent == IndentWriter_new_skip_initial(Indent2, f)
             w      == write_fmt(indent, << <<"-", " ">>, display(src), <<"\n">> >>)
         IN  IF w.err THEN w
             ELSE display_nested_error_single_loop(into_inner(w), source(src))

RECURSIVE display_nested_error_multi_loop(_, _)
\* The while-let loop of display_nested_error, DisplayKind::Multi arm.
display_nested_error_multi_loop(f, next) ==
    IF next = <<>> THEN f
    ELSE LET src    == next[1]
             indent == IndentWriter_new_skip_initial(Indent4, f)
             w      == write_fmt(indent,
                          << <<" ", " ", "-", " ">>, display(src), <<"\n">> >>)
         IN  IF w.err THEN w
             ELSE display_nested_error_multi_loop(into_inner(w), source(src))

\* Variant: the links nested under a "+" entry get no extra indentation.
display_nested_error_no_extra_indent(f, error, parent_kind) ==
    LET indent == IndentWriter_new_skip_initial(Indent2, f)
        glyph  == IF parent_kind = "Single" THEN <<"-", " ">> ELSE <<"+", " ">>
        w      == write_fmt(indent, <<glyph, display(error), <<"\n">> >>)
    IN  display_nested_error_single_loop(into_inner(w), source(error))

\* Variant: the links under a "+" entry are written like further "+" entries
\* of the same level.
display_nested_error_links_as_entries(f, error, parent_kind) ==
    LET indent == IndentWriter_new_skip_initial(Indent2, f)
        glyph  == IF parent_kind = "Single" THEN <<"-", " ">> ELSE <<"+", " ">>
        w      == write_fmt(indent, <<glyph, display(error), <<"\n">> >>)
    IN  IF w.err \/ source(error) = <<>> THEN (IF w.err THEN w ELSE into_inner(w))
        ELSE display_nested_error_links_as_entries(into_inner(w), source(error)[1],
                                                   parent_kind)

display_nested_error(f, error, parent_kind) ==
    IF parent_kind = "Single"
    THEN LET indent == IndentWriter_new_skip_initial(Indent2, f)
             w      == write_fmt(indent, << <<"-", " ">>, display(error), <<"\n">> >>)
         IN  IF w.err THEN w
             ELSE display_nested_error_single_loop(into_inner(w), source(error))
    ELSE LET indent == IndentWriter_new_skip_initial(Indent2, f)
             w      == write_fmt(indent, << <<"+", " ">>, display(error), <<"\n">> >>)
         IN  IF w.err THEN w
             ELSE display_nested_error_multi_loop(into_inner(w), source(error))

RECURSIVE display_nested_source(_, _, _), display_nested_tree(_, _, _),
          display_sources_multi(_, _, _)

RECURSIVE display_sources_multi_rev(_, _, _)
\* Variant: the sources are rendered last to first.
display_sources_multi_rev(f, srcs, i) ==
    IF i > Len(srcs) THEN f
    ELSE display_sources_multi_rev(
             display_nested_source(f, srcs[Len(srcs) + 1 - i], "Multi"), srcs, i + 1)

\* The calls display_nested_source(&mut indent, source, Multi) for the first
\* source and then for every remaining source of the iterator.
display_sources_multi(f, srcs, i) ==
    IF i > Len(srcs) THEN f
    ELSE LET f1 == display_nested_source(f, srcs[i], "Multi")
         IN  IF f1.err THEN f1 ELSE display_sources_multi(f1, srcs, i + 1)

\* Variant: the only source of a "+" entry gets no extra indentation.
display_nested_tree_no_indent_after_multi(f, t, parent_kind) ==
    LET indent == IndentWriter_new_skip_initial(Indent2, f)
        glyph  == IF parent_kind = "Single" THEN <<"-", " ">> ELSE <<"+", " ">>
        f1     == into_inner(write_fmt(indent, <<glyph, display(t), <<"\n">> >>))
        srcs   == sources(t)
    IN  IF srcs = <<>> THEN f1
        ELSE IF Len(srcs) = 1
        THEN display_nested_source(f1, srcs[1], "Single")
        ELSE into_inner(display_sources_multi(IndentWriter_new(Indent2, f1), srcs, 1))

\* Variant: the only source of a node is always indented one level more.
display_nested_tree_always_indent(f, t, parent_kind) ==
    LET indent == IndentWriter_new_skip_initial(Indent2, f)
        glyph  == IF parent_kind = "Single" THEN <<"-", " ">> ELSE <<"+", " ">>
        f1     == into_inner(write_fmt(indent, <<glyph, display(t), <<"\n">> >>))
        srcs   == sources(t)
    IN  IF srcs = <<>> THEN f1
        ELSE IF Len(srcs) = 1
        THEN into_inner(display_nested_source(
                            IndentWriter_new(Indent2, f1), srcs[1], "Single"))
        ELSE into_inner(display_sources_multi(IndentWriter_new(Indent2, f1), srcs, 1))

\* Variant: several sources of a node entered in Multi state are indented
\* two levels instead of one.
display_nested_tree_multi_double_indent(f, t, parent_kind) ==
    LET indent == IndentWriter_new_skip_initial(Indent2, f)
        glyph  == IF parent_kind = "Single" THEN <<"-", " ">> ELSE <<"+", " ">>
        f1     == into_inner(write_fmt(indent, <<glyph, display(t), <<"\n">> >>))
        srcs   == sources(t)
    IN  IF srcs = <<>> THEN f1
        ELSE IF Len(srcs) = 1
        THEN IF parent_kind = "Single"
             THEN display_nested_source(f1, srcs[1], "Single")
             ELSE into_inner(display_nested_source(
                                 IndentWriter_new(Indent2, f1), srcs[1], "Single"))
        ELSE into_inner(display_sources_multi(
                 IndentWriter_new(IF parent_kind = "Single" THEN Indent2 ELSE Indent4, f1),
                 srcs, 1))

\* Variant: the entry line is written to f itself, without the IndentWriter
\* that aligns the further lines of the message.
display_nested_tree_entry_direct(f, t, parent_kind) ==
    LET glyph  == IF parent_kind = "Single" THEN <<"-", " ">> ELSE <<"+", " ">>
        f1     == write_fmt(f, <<glyph, display(t), <<"\n">> >>)
        srcs   == sources(t)
    IN  IF f1.err THEN f1
        ELSE IF srcs = <<>> THEN f1
        ELSE IF Len(srcs) = 1
        THEN IF parent_kind = "Single"
             THEN display_nested_source(f1, srcs[1], "Single")
             ELSE into_inner(display_nested_source(
                                 IndentWriter_new(Indent2, f1), srcs[1], "Single"))
        ELSE into_inner(display_sources_multi(IndentWriter_new(Indent2, f1), srcs, 1))

\* Variant: the entry line of a nested tree always carries the glyph "-".
display_nested_tree_always_dash(f, t, parent_kind) ==
    LET indent == IndentWriter_new_skip_initial(Indent2, f)
        w      == write_fmt(indent, << <<"-", " ">>, display(t), <<"\n">> >>)
        f1     == into_inner(w)
        srcs   == sources(t)
    IN  IF w.err THEN w
        ELSE IF srcs = <<>> THEN f1
        ELSE IF Len(srcs) = 1
        THEN IF parent_kind = "Single"
             THEN display_nested_source(f1, srcs[1], "Single")
             ELSE into_inner(display_nested_source(
                                 IndentWriter_new(Indent2, f1), srcs[1], "Single"))
        ELSE into_inner(display_sources_multi(IndentWriter_new(Indent2, f1), srcs, 1))

display_nested_tree(f, t, parent_kind) ==
    LET indent == IndentWriter_new_skip_initial(Indent2, f)
        glyph  == IF parent_kind = "Single" THEN <<"-", " ">> ELSE <<"+", " ">>
        w      == write_fmt(indent, <<glyph, display(t), <<"\n">> >>)
        f1     == into_inner(w)
        srcs   == sources(t)
    IN  IF w.err THEN w
        ELSE IF srcs = <<>> THEN f1
        ELSE IF Len(srcs) = 1
        THEN IF parent_kind = "Single"
             THEN display_nested_source(f1, srcs[1], "Single")
             ELSE into_inner(display_nested_source(
                                 IndentWriter_new(Indent2, f1), srcs[1], "Single"))
        ELSE into_inner(display_sources_multi(IndentWriter_new(Indent2, f1), srcs, 1))

display_nested_source(f, src, parent_kind) ==
    IF src.kind = "Error"
    THEN display_nested_error(f, src, parent_kind)
    ELSE display_nested_tree(f, src, parent_kind)

\* Variant: every source of the root is rendered in Multi state.
display_tree_always_multi(f, t) ==
    LET f1   == write_fmt(f, << <<>>, display(t) >>)
        srcs == sources(t)
    IN  IF srcs = <<>> THEN f1
        ELSE into_inner(display_sources_multi(
                 IndentWriter_new(Indent2, write_fmt(f1, <<CausedByTree>>)), srcs, 1))

\* Variant: the banner is written before the sources are looked at.
display_tree_banner_first(f, t) ==
    LET f1   == write_fmt(f, << <<>>, display(t) >>)
        srcs == sources(t)
        f2     == write_fmt(f1, <<CausedByTree>>)
        indent == IndentWriter_new(Indent2, f2)
    IN  IF srcs = <<>> THEN f2
        ELSE IF Len(srcs) = 1
        THEN into_inner(display_nested_source(indent, srcs[1], "Single"))
        ELSE into_inner(display_sources_multi(indent, srcs, 1))

\* Variant: the result of writing the banner is dropped instead of returned.
display_tree_ignore_banner_err(f, t) ==
    LET f1   == write_fmt(f, << <<>>, display(t) >>)
        srcs == sources(t)
    IN  IF f1.err THEN f1
        ELSE IF srcs = <<>> THEN f1
        ELSE LET f2     == write_fmt(f1, <<CausedByTree>>)
                 indent == IndentWriter_new(Indent2, f2)
             IN  IF Len(srcs) = 1
                 THEN into_inner(display_nested_source(indent, srcs[1], "Single"))
                 ELSE into_inner(display_sources_multi(indent, srcs, 1))

display_tree(f, t) ==
    LET f1   == write_fmt(f, << <<>>, display(t) >>)
        srcs == sources(t)
    IN  IF f1.err THEN f1
        ELSE IF srcs = <<>> THEN f1
        ELSE LET f2     == write_fmt(f1, <<CausedByTree>>)
                 indent == IndentWriter_new(Indent2, f2)
             IN  IF f2.err THEN f2
                 ELSE IF Len(srcs) = 1
                 THEN into_inner(display_nested_source(indent, srcs[1], "Single"))
                 ELSE into_inner(display_sources_multi(indent, srcs, 1))

display_error(f, error) ==
    LET f1 == write_fmt(f, << <<>>, display(error) >>)
        f2 == write_fmt(f1, <<CausedByError>>)
    IN  IF f1.err THEN f1
        ELSE IF source(error) = <<>> THEN f1
        ELSE IF f2.err THEN f2
        ELSE display_nested_error(f2, source(error)[1], "Single")

\* ErrorTreeDisplay / to_string(): render into a fresh String.
render_tree(t) == display_tree(NewWriter, t).sink

(***************************************************************************)
(* Mishap (mishap/src/mishap.rs, wrapped.rs) and the other ErrorTree       *)
(* implementations                                                         *)
(*                                                                         *)
(* An implementation value is a record [kind, msg, sources] whose kind is  *)
(* its Rust type: "Error" an anyhow::Error (a chain of links), "Tree" an   *)
(* ErrorTree of another crate, "WrappedTree" a WrappedTree<D, E> (sources  *)
(* holds its Box<[E]>), "Mishap" a Mishap (sources holds its Box<TreeImpl>, *)
(* of kind "TreeImpl::Error" or "TreeImpl::Tree", whose sources holds the  *)
(* anyhow::Error or the Box<dyn ErrorTree>), "Ref", "RefMut", "Box",       *)
(* "BoxDyn", "Arc" an ownership wrapper (sources holds the value wrapped). *)
(***************************************************************************)

\* anyhow!(msg)
anyhow(m) == ErrorLink(m, <<>>)

\* anyhow::Error::context(msg)
context(error, m) == ErrorLink(m, <<error>>)

WrappedTree_new(m, srcs) == [kind |-> "WrappedTree", msg |-> m, sources |-> srcs]

\* Mishap { kind }
Mishap(impl) == [kind |-> "Mishap", msg |-> <<>>, sources |-> <<impl>>]

\* TreeImpl::new_chain
new_chain(error) ==
    Mishap([kind |-> "TreeImpl::Error", msg |-> <<>>, sources |-> <<error>>])

\* TreeImpl::new_tree
new_tree(t) ==
    Mishap([kind |-> "TreeImpl::Tree", msg |-> <<>>, sources |-> <<t>>])

\* Variant: the factory builds a WrappedTree whatever the number of sources.
new_wrapped_tree_no_collapse(m, srcs) == new_tree(WrappedTree_new(m, srcs))

\* TreeImpl::new_wrapped_tree
new_wrapped_tree(m, srcs) ==
    IF srcs = <<>> THEN new_chain(anyhow(m))
    ELSE new_tree(WrappedTree_new(m, srcs))

Mishap_from_msg(m) == new_chain(anyhow(m))

Mishap_from_anyhow(error) == new_chain(error)

Mishap_from_anyhow_and_msg(m, error) == new_chain(context(error, m))

Mishap_from_anyhows_and_msg(m, srcs) == new_wrapped_tree(m, srcs)

\* anyhow!(error) of a std::error::Error keeps its Display and its source().
Mishap_from_error(error) == new_chain(error)

Mishap_from_error_and_msg(m, error) == new_chain(context(error, m))

Mishap_from_errors_and_msg(m, srcs) == new_wrapped_tree(m, srcs)

Mishap_from_error_tree(t) == new_tree(t)

Mishap_from_error_tree_and_msg(m, t) == new_wrapped_tree(m, <<t>>)

Mishap_from_error_trees_and_msg(m, srcs) == new_wrapped_tree(m, srcs)

Mishap_wrap_single(self, m) == new_wrapped_tree(m, <<self>>)

RECURSIVE cause_chain_fold(_, _, _)
\* The for loop of from_msg_and_cause_chain over the causes that remain.
cause_chain_fold(next, causes, i) ==
    IF i > Len(causes) THEN next
    ELSE cause_chain_fold(IF next = <<>> THEN <<anyhow(causes[i])>>
                          ELSE <<context(next[1], causes[i])>>,
                          causes, i + 1)

\* cause_chain.rev().chain(once(msg)) folded into one anyhow::Error
Mishap_from_msg_and_cause_chain(m, cause_chain) ==
    LET rev == [i \in 1..Len(cause_chain) |-> cause_chain[Len(cause_chain) + 1 - i]]
    IN  new_chain(cause_chain_fold(<<>>, rev \o <<m>>, 1)[1])

RECURSIVE borrowed_chain_push(_)
\* The first while-let loop of from_borrowed_error: the chain vector.
borrowed_chain_push(chain) ==
    LET cause == source(chain[Len(chain)]) IN
    IF cause = <<>> THEN chain
    ELSE borrowed_chain_push(Append(chain, cause[1]))

RECURSIVE borrowed_chain_pop(_, _)
\* The second while-let loop of from_borrowed_error: next.context(cause).
borrowed_chain_pop(next, chain) ==
    IF chain = <<>> THEN next
    ELSE borrowed_chain_pop(context(next, display(chain[Len(chain)])),
                            SubSeq(chain, 1, Len(chain) - 1))

\* Variant: the causes are attached in the order they were collected.
Mishap_from_borrowed_error_rev(error) ==
    LET chain == borrowed_chain_push(<<error>>)
        rev   == [i \in 1..Len(chain) |-> chain[Len(chain) + 1 - i]]
    IN  new_chain(borrowed_chain_pop(anyhow(display(rev[Len(rev)])),
                                     SubSeq(rev, 1, Len(rev) - 1)))

Mishap_from_borrowed_error(error) ==
    LET chain == borrowed_chain_push(<<error>>)
    IN  new_chain(borrowed_chain_pop(anyhow(display(chain[Len(chain)])),
                                     SubSeq(chain, 1, Len(chain) - 1)))

RECURSIVE Mishap_from_borrowed_tree(_)
Mishap_from_borrowed_tree(t) ==
    new_wrapped_tree(display(t),
        [i \in 1..Len(sources(t)) |->
            IF sources(t)[i].kind = "Error"
            THEN Mishap_from_borrowed_error(sources(t)[i])
            ELSE Mishap_from_borrowed_tree(sources(t)[i])])

\* The ownership wrappers of error_tree.rs: &T, &mut T, Box<T>,
\* Box<dyn ErrorTree>, Arc<T>.
WrapperKinds == { "Ref", "RefMut", "Box", "BoxDyn", "Arc" }

Wrapper(w, x) == [kind |-> w, msg |-> <<>>, sources |-> <<x>>]

RECURSIVE impl_display(_)
\* fmt::Display of an implementation value.
impl_display(x) ==
    IF x.kind \in { "Error", "Tree", "WrappedTree" } THEN x.msg
    ELSE impl_display(x.sources[1])

RECURSIVE impl_sources(_), as_dyn(_)

\* Variant: an Arc yields no sources.
impl_sources_arc_empty(x) ==
    IF x.kind \in { "Error", "Tree" } THEN x.sources
    ELSE IF x.kind = "WrappedTree"
    THEN [i \in 1..Len(x.sources) |-> as_dyn(x.sources[i])]
    ELSE IF x.kind = "Arc" THEN <<>>
    ELSE IF x.kind = "TreeImpl::Error" THEN source(x.sources[1])
    ELSE impl_sources(x.sources[1])

\* ErrorTree::sources of an implementation value: the sources it yields, in
\* order, each an error value carrying its ErrorTreeSource tag in its kind.
impl_sources(x) ==
    IF x.kind \in { "Error", "Tree" } THEN x.sources
    ELSE IF x.kind = "WrappedTree"
    THEN [i \in 1..Len(x.sources) |-> as_dyn(x.sources[i])]
    ELSE IF x.kind = "TreeImpl::Error" THEN source(x.sources[1])
    ELSE impl_sources(x.sources[1])

\* An implementation value behind &dyn ErrorTree: its display string and
\* what its sources() yields.
as_dyn(x) == TreeNode(impl_display(x), impl_sources(x))

\* Variant: the Debug format writes the Display string only.
Mishap_Debug_fmt_display_only(f, self) == write_fmt(f, << <<>>, impl_display(self) >>)

\* impl fmt::Debug for Mishap, for a Formatter that is not alternate:
\* fmt::Display::fmt(&self.display_tree(), f), and ErrorTreeDisplay::fmt
\* calls display_tree(f, &self.tree).
Mishap_Debug_fmt(f, self) == display_tree(f, as_dyn(Wrapper("Ref", self)))

(***************************************************************************)
(* The canonical string tree (serde-err-tree/src/string_tree.rs, tree.rs)  *)
(*                                                                         *)
(* A StringErrorTree / SerdeErrorTree value is a record [msg, sources].    *)
(***************************************************************************)

\* StringErrorTree::from_msg_and_sources
from_msg_and_sources(m, srcs) == [msg |-> m, sources |-> srcs]

\* Variant: the chain below the first link is dropped.
from_error_no_cause(error) == from_msg_and_sources(display(error), <<>>)

RECURSIVE from_error(_)
\* StringErrorTree::from_error: error.source().map(Self::from_error), then
\* the Option collected into the Vec of sources.
from_error(error) ==
    LET src == IF source(error) = <<>> THEN <<>>
               ELSE << from_error(source(error)[1]) >>
    IN  from_msg_and_sources(display(error), src)

RECURSIVE StringErrorTree_new(_)
\* StringErrorTree::new: the message, and the sources mapped by tag.
StringErrorTree_new(t) ==
    [msg     |-> display(t),
     sources |-> [i \in 1..Len(sources(t)) |->
                     IF sources(t)[i].kind = "Error"
                     THEN from_error(sources(t)[i])
                     ELSE StringErrorTree_new(sources(t)[i])]]

RECURSIVE StringErrorTree_as_tree(_)
\* impl ErrorTree for StringErrorTree (with its Display): every source is
\* yielded as ErrorTreeSource::Tree.
StringErrorTree_as_tree(st) ==
    TreeNode(st.msg, [i \in 1..Len(st.sources) |->
                         StringErrorTree_as_tree(st.sources[i])])

(***************************************************************************)
(* The JSON serializer Ser is driven into (serde_json, compact form)       *)
(*                                                                         *)
(* A compound serializer state is "Empty", "First" or "Rest".              *)
(***************************************************************************)

RECURSIVE format_escaped_str_contents(_, _)
\* The characters of a string with the JSON escapes applied.
format_escaped_str_contents(s, i) ==
    IF i > Len(s) THEN <<>>
    ELSE (IF s[i] = "\n" THEN <<"\\", "n">>
          ELSE IF s[i] = "\"" THEN <<"\\", "\"">>
          ELSE IF s[i] = "\\" THEN <<"\\", "\\">>
          ELSE <<s[i]>>) \o format_escaped_str_contents(s, i + 1)

\* Serializer::serialize_str
serialize_str(w, s) == w \o <<"\"">> \o format_escaped_str_contents(s, 1) \o <<"\"">>

\* Serializer::serialize_struct(name, len) with len = 2: begin_object.
serialize_struct(w) == [buf |-> w \o <<"{">>, state |-> "First"]

\* SerializeStruct::serialize_field up to the value: the separator, the key
\* and the colon.
serialize_field_key(c, key) ==
    [buf   |-> serialize_str(IF c.state = "First" THEN c.buf ELSE c.buf \o <<",">>, key)
                  \o <<":">>,
     state |-> "Rest"]

\* SerializeStruct::end
serialize_struct_end(c) == IF c.state = "Empty" THEN c.buf ELSE c.buf \o <<"}">>

\* Serializer::serialize_seq(Some(len)): a length of 0 closes the array at
\* once and leaves the compound Empty.
serialize_seq(w, len) ==
    IF len = 0 THEN [buf |-> w \o <<"[", "]">>, state |-> "Empty"]
    ELSE [buf |-> w \o <<"[">>, state |-> "First"]

\* SerializeSeq::serialize_element up to the value: begin_array_value.
serialize_element_begin(c) ==
    [buf   |-> IF c.state = "First" THEN c.buf ELSE c.buf \o <<",">>,
     state |-> "Rest"]

\* SerializeSeq::end
serialize_seq_end(c) == IF c.state = "Empty" THEN c.buf ELSE c.buf \o <<"]">>

KeyMsg == <<"m", "s", "g">>

KeySources == <<"s", "o", "u", "r", "c", "e", "s">>

(***************************************************************************)
(* The Ser adapter (serde-err-tree/src/adapter.rs)                         *)
(***************************************************************************)

RECURSIVE SerError_serialize(_, _), SerErrorSources_serialize(_, _)

\* impl Serialize for SerErrorSources: the length announced is the size
\* hint of the Option's iterator, which is exact.
SerErrorSources_serialize(w, src) ==
    LET seq == serialize_seq(w, Len(src)) IN
    IF src # <<>>
    THEN LET c == serialize_element_begin(seq)
         IN  serialize_seq_end([c EXCEPT !.buf = SerError_serialize(@, src[1])])
    ELSE serialize_seq_end(seq)

\* impl Serialize for SerError
SerError_serialize(w, error) ==
    LET map == serialize_struct(w)
        k1  == serialize_field_key(map, KeyMsg)
        v1  == [k1 EXCEPT !.buf = serialize_str(@, display(error))]
        k2  == serialize_field_key(v1, KeySources)
        v2  == [k2 EXCEPT !.buf = SerErrorSources_serialize(@, source(error))]
    IN  serialize_struct_end(v2)

RECURSIVE Ser_serialize(_, _, _), SerSources_serialize(_, _, _),
          SerSources_elements(_, _, _, _), SerSource_serialize(_, _, _)

\* impl Serialize for Ser<ET>
Ser_serialize(w, t, it) ==
    LET map == serialize_struct(w)
        k1  == serialize_field_key(map, KeyMsg)
        v1  == [k1 EXCEPT !.buf = serialize_str(@, display(t))]
        k2  == serialize_field_key(v1, KeySources)
        v2  == [k2 EXCEPT !.buf = SerSources_serialize(@, t, it)]
    IN  serialize_struct_end(v2)

\* impl Serialize for SerSources: the length announced is the lower bound of
\* the size hint; then every source the iterator yields is an element.
SerSources_serialize(w, t, it) ==
    LET seq == serialize_seq(w, size_hint_lower(t, it))
    IN  serialize_seq_end(SerSources_elements(seq, sources(t), 1, it))

\* The for loop of SerSources::serialize.
SerSources_elements(c, srcs, i, it) ==
    IF i > Len(srcs) THEN c
    ELSE LET b == serialize_element_begin(c)
         IN  SerSources_elements([b EXCEPT !.buf = SerSource_serialize(@, srcs[i], it)],
                                 srcs, i + 1, it)

\* impl Serialize for SerSource
SerSource_serialize(w, src, it) ==
    IF src.kind = "Error" THEN SerError_serialize(w, src)
    ELSE Ser_serialize(w, src, it)

\* serde_json::to_string(&Ser::new(tree))
to_string(t, it) == Ser_serialize(<<>>, t, it)

\* The serialize_seq calls of a serialization, in the order made: each is
\* [len, elements], the length announced in Some(len) and the number of
\* serialize_element calls that follow before end().

RECURSIVE SerError_seq_calls(_)
\* The calls made by SerError and SerErrorSources for a chain: the length is
\* the size hint of the Option's iterator, the element is the cause, if any.
SerError_seq_calls(error) ==
    << [len |-> Len(source(error)), elements |-> Len(source(error))] >>
    \o (IF source(error) = <<>> THEN <<>> ELSE SerError_seq_calls(source(error)[1]))

RECURSIVE Ser_seq_calls(_, _), SerSources_seq_calls(_, _, _)
\* The calls made by Ser and SerSources for a tree: the length is the lower
\* bound of the size hint, the elements are the sources the iterator yields.
Ser_seq_calls(t, it) ==
    << [len |-> size_hint_lower(t, it), elements |-> Len(sources(t))] >>
    \o SerSources_seq_calls(sources(t), 1, it)

\* The calls made inside the elements of the for loop of SerSources.
SerSources_seq_calls(srcs, i, it) ==
    IF i > Len(srcs) THEN <<>>
    ELSE (IF srcs[i].kind = "Error" THEN SerError_seq_calls(srcs[i])
          ELSE Ser_seq_calls(srcs[i], it))
         \o SerSources_seq_calls(srcs, i + 1, it)

\* impl Serialize for StringErrorTree: Ser::new(self), whose sources() is a
\* mapped slice iterator.
StringErrorTree_to_string(st) == to_string(StringErrorTree_as_tree(st), "slice")

(***************************************************************************)
(* Deserialization: serde_json::from_str::<StringErrorTree>                *)
(*                                                                         *)
(* A parse result is [ok, val, pos]: pos is the index after the value.     *)
(* The derived Deserialize is modelled on the documents Ser emits: the     *)
(* fields "msg" and "sources" in that order, without whitespace.           *)
(***************************************************************************)

ParseError == [ok |-> FALSE, val |-> <<>>, pos |-> 0]

\* The character at index i, or "" past the end of the input.
Peek(s, i) == IF i >= 1 /\ i <= Len(s) THEN s[i] ELSE ""

RECURSIVE parse_str_contents(_, _, _)
\* The characters of a string up to its closing quote, escapes decoded.
parse_str_contents(s, i, acc) ==
    IF Peek(s, i) = "" THEN ParseError
    ELSE IF s[i] = "\"" THEN [ok |-> TRUE, val |-> acc, pos |-> i + 1]
    ELSE IF s[i] = "\\"
    THEN IF Peek(s, i + 1) = "n" THEN parse_str_contents(s, i + 2, Append(acc, "\n"))
         ELSE IF Peek(s, i + 1) \in {"\"", "\\"}
         THEN parse_str_contents(s, i + 2, Append(acc, s[i + 1]))
         ELSE ParseError
    ELSE IF s[i] = "\n" THEN ParseError
    ELSE parse_str_contents(s, i + 1, Append(acc, s[i]))

\* Deserializer::deserialize_str / a map key
parse_str(s, i) ==
    IF Peek(s, i) = "\"" THEN parse_str_contents(s, i + 1, <<>>) ELSE ParseError

\* A map key that must be the given field name, followed by the colon.
parse_key(s, i, key) ==
    LET k == parse_str(s, i) IN
    IF k.ok /\ k.val = key /\ Peek(s, k.pos) = ":"
    THEN [ok |-> TRUE, val |-> <<>>, pos |-> k.pos + 1]
    ELSE ParseError

RECURSIVE parse_tree(_, _), parse_sources(_, _), parse_elements(_, _, _)

\* The visitor of the derived Deserialize for StringErrorTree.
parse_tree(s, i) ==
    IF Peek(s, i) # "{" THEN ParseError
    ELSE LET k1 == parse_key(s, i + 1, KeyMsg) IN
    IF ~k1.ok THEN ParseError
    ELSE LET m == parse_str(s, k1.pos) IN
    IF ~m.ok \/ Peek(s, m.pos) # "," THEN ParseError
    ELSE LET k2 == parse_key(s, m.pos + 1, KeySources) IN
    IF ~k2.ok THEN ParseError
    ELSE LET v == parse_sources(s, k2.pos) IN
    IF ~v.ok \/ Peek(s, v.pos) # "}" THEN ParseError
    ELSE [ok  |-> TRUE,
          val |-> [msg |-> m.val, sources |-> v.val],
          pos |-> v.pos + 1]

\* Vec<StringErrorTree>: a JSON array.
parse_sources(s, i) ==
    IF Peek(s, i) # "[" THEN ParseError
    ELSE IF Peek(s, i + 1) = "]" THEN [ok |-> TRUE, val |-> <<>>, pos |-> i + 2]
    ELSE parse_elements(s, i + 1, <<>>)

\* The elements of a non-empty array, up to its closing bracket.
parse_elements(s, i, acc) ==
    LET e == parse_tree(s, i) IN
    IF ~e.ok THEN ParseError
    ELSE IF Peek(s, e.pos) = "," THEN parse_elements(s, e.pos + 1, Append(acc, e.val))
    ELSE IF Peek(s, e.pos) = "]"
    THEN [ok |-> TRUE, val |-> Append(acc, e.val), pos |-> e.pos + 1]
    ELSE ParseError

\* serde_json::from_str: the value, then Deserializer::end (no trailing
\* characters).  A Result: [ok, val].
from_str(s) ==
    LET r == parse_tree(s, 1) IN
    IF r.ok /\ r.pos = Len(s) + 1 THEN [ok |-> TRUE, val |-> r.val]
    ELSE [ok |-> FALSE, val |-> <<>>]

(***************************************************************************)
(* The state machine: the steps of test_impl (serde_tests.rs) followed by  *)
(* the renderings of display.rs, on one error tree                         *)
(***************************************************************************)

NoText == <<>>

NoResult == [ok |-> FALSE, val |-> <<>>]

NoTree == [msg |-> <<>>, sources |-> <<>>]

\* No rendering in progress.
NoProcs == <<>>

\* A conversion not started: [pc, stack, result].
IdleConverter == [pc |-> "start", stack |-> <<>>, result |-> NoTree]

\* A rendering not started: [pc, f, stack].
IdleRenderer == [pc |-> "start", f |-> NewWriter, stack |-> <<>>]

\* No Mishap built yet.
NoMishap == [kind |-> "None", msg |-> <<>>, sources |-> <<>>]

\* No serialize_seq call made yet.
NoCalls == <<>>

\* No constructor called yet.
NoOp == [op |-> "none", msg |-> <<>>, n |-> 0, calls |-> 0]

Init ==
    /\ tree \in Trees
    /\ iter \in IterKinds
    /\ pc = "start"
    /\ json = NoText
    /\ dtree = NoResult
    /\ json2 = NoText
    /\ dtree2 = NoResult
    /\ stree = NoTree
    /\ out = NoText
    /\ sout = NoText
    /\ fw = NewWriter
    /\ mishap = NoMishap
    /\ last = NoOp
    /\ dbg = NoText
    /\ rs = NoProcs
    /\ cv = IdleConverter
    /\ obj = NoMishap
    /\ seqs = NoCalls

\* let json = serde_json::to_string(&Ser::new(&mishap))
Serialize ==
    /\ pc = "start"
    /\ json' = to_string(tree, iter)
    /\ seqs' = Ser_seq_calls(tree, iter)
    /\ pc' = "ser"
    /\ UNCHANGED <<tree, iter, dtree, json2, dtree2, stree, out, sout, fw, mishap, last, dbg, rs, cv, obj>>

\* let tree: StringErrorTree = serde_json::from_str(&json)
Deserialize ==
    /\ pc = "ser"
    /\ dtree' = from_str(json)
    /\ pc' = "de"
    /\ UNCHANGED <<tree, iter, json, json2, dtree2, stree, out, sout, fw, mishap, last, dbg, rs, cv, obj, seqs>>

\* let string_json = serde_json::to_string(&Ser::new(&tree))
Reserialize ==
    /\ pc = "de"
    /\ dtree.ok
    /\ json2' = StringErrorTree_to_string(dtree.val)
    /\ pc' = "ser2"
    /\ UNCHANGED <<tree, iter, json, dtree, dtree2, stree, out, sout, fw, mishap, last, dbg, rs, cv, obj, seqs>>

\* let tree2: StringErrorTree = serde_json::from_str(&string_json)
Deserialize2 ==
    /\ pc = "ser2"
    /\ dtree2' = from_str(json2)
    /\ pc' = "de2"
    /\ UNCHANGED <<tree, iter, json, dtree, json2, stree, out, sout, fw, mishap, last, dbg, rs, cv, obj, seqs>>

\* let tree3 = StringErrorTree::new(&mishap); without a first tree to
\* re-serialize, the round trip is skipped.
Convert ==
    /\ pc = "de2" \/ (pc = "de" /\ ~dtree.ok)
    /\ stree' = StringErrorTree_new(tree)
    /\ pc' = "new"
    /\ UNCHANGED <<tree, iter, json, dtree, json2, dtree2, out, sout, fw, mishap, last, dbg, rs, cv, obj, seqs>>

\* mishap.display_tree().to_string()
DisplayTree ==
    /\ pc = "new"
    /\ out' = render_tree(tree)
    /\ pc' = "disp"
    /\ UNCHANGED <<tree, iter, json, dtree, json2, dtree2, stree, sout, fw, mishap, last, dbg, rs, cv, obj, seqs>>

\* tree3.display_tree().to_string()
DisplayStringTree ==
    /\ pc = "disp"
    /\ sout' = render_tree(StringErrorTree_as_tree(stree))
    /\ pc' = "done"
    /\ UNCHANGED <<tree, iter, json, dtree, json2, dtree2, stree, out, fw, mishap, last, dbg, rs, cv, obj, seqs>>

Next ==
    \/ Serialize
    \/ Deserialize
    \/ Reserialize
    \/ Deserialize2
    \/ Convert
    \/ DisplayTree
    \/ DisplayStringTree

Spec == Init /\ [][Next]_vars

(***************************************************************************)
(* Building Mishaps                                                        *)
(*                                                                         *)
(* mishap is the Mishap built so far by a sequence of constructor and      *)
(* wrapping calls (mishap.rs, as in mishap-testdata), last the call that   *)
(* built it, dbg and out its {:?} format and its display_tree rendering.   *)
(***************************************************************************)

RECURSIVE NodeCount(_), NodeCountSeq(_, _)
\* The nodes (tree nodes and chain links) of an error value.
NodeCount(t) == 1 + NodeCountSeq(t.sources, 1)

NodeCountSeq(srcs, i) ==
    IF i > Len(srcs) THEN 0 ELSE NodeCount(srcs[i]) + NodeCountSeq(srcs, i + 1)

RECURSIVE MultiLineCount(_), MultiLineCountSeq(_, _)
\* The nodes of an error value that carry the multi-line message.
MultiLineCount(t) ==
    (IF t.msg = MultiLine THEN 1 ELSE 0) + MultiLineCountSeq(t.sources, 1)

MultiLineCountSeq(srcs, i) ==
    IF i > Len(srcs) THEN 0
    ELSE MultiLineCount(srcs[i]) + MultiLineCountSeq(srcs, i + 1)

\* The Mishaps kept: up to MaxMishapNodes nodes, at most one multi-line
\* message.
InBounds(m) ==
    /\ NodeCount(as_dyn(m)) <= MaxMishapNodes
    /\ MultiLineCount(as_dyn(m)) <= 1

\* The anyhow::Error values drawn as inputs.
Anyhows == UNION { ChainsE(n, ml) : n \in 1..MaxMishapNodes, ml \in BOOLEAN }

\* The error trees of another crate drawn as inputs.
ForeignTrees == UNION { TreesE(n, ml) : n \in 1..MaxMishapNodes, ml \in BOOLEAN }

\* The lists of anyhow::Error values drawn as inputs.
AnyhowLists ==
    { <<>> } \cup { <<e>> : e \in Anyhows } \cup { <<e1, e2>> : e1, e2 \in Anyhows }

\* The cause chains drawn as inputs: the messages below the top one.
CauseChains == UNION { [1..n -> Msgs] : n \in 0..(MaxMishapNodes - 1) }

\* The Mishaps built on the side to stand next to the current one.
Siblings == { Mishap_from_msg(Plain),
              Mishap_from_anyhow_and_msg(Plain, anyhow(Plain)) }

InitMishap ==
    /\ tree \in { TreeNode(Plain, <<>>) }
    /\ iter = "slice"
    /\ pc = "start"
    /\ json = NoText
    /\ dtree = NoResult
    /\ json2 = NoText
    /\ dtree2 = NoResult
    /\ stree = NoTree
    /\ out = NoText
    /\ sout = NoText
    /\ fw = NewWriter
    /\ mishap = NoMishap
    /\ last = NoOp
    /\ dbg = NoText
    /\ rs = NoProcs
    /\ cv = IdleConverter
    /\ obj = NoMishap
    /\ seqs = NoCalls

\* The Mishap m returned by the call op(msg, n sources) becomes the current one.
Built(m, op, msg, n) ==
    /\ pc \in { "start", "built" }
    /\ last.calls < MaxCalls
    /\ InBounds(m)
    /\ mishap' = m
    /\ last' = [op |-> op, msg |-> msg, n |-> n, calls |-> last.calls + 1]
    /\ pc' = "built"
    /\ UNCHANGED <<tree, iter, json, dtree, json2, dtree2, stree, out, sout, fw, dbg, rs, cv, obj, seqs>>

FromMsg ==
    /\ pc = "start"
    /\ \E m \in Msgs : Built(Mishap_from_msg(m), "from_msg", m, 0)

FromAnyhow ==
    /\ pc = "start"
    /\ \E e \in Anyhows : Built(Mishap_from_anyhow(e), "from_anyhow", display(e), 0)

FromAnyhowAndMsg ==
    /\ pc = "start"
    /\ \E m \in Msgs, e \in Anyhows :
        Built(Mishap_from_anyhow_and_msg(m, e), "from_anyhow_and_msg", m, 1)

FromAnyhowsAndMsg ==
    /\ pc = "start"
    /\ \E m \in Msgs, es \in AnyhowLists :
        Built(Mishap_from_anyhows_and_msg(m, es), "from_anyhows_and_msg", m, Len(es))

FromError ==
    /\ pc = "start"
    /\ \E e \in Anyhows : Built(Mishap_from_error(e), "from_error", display(e), 0)

FromErrorAndMsg ==
    /\ pc = "start"
    /\ \E m \in Msgs, e \in Anyhows :
        Built(Mishap_from_error_and_msg(m, e), "from_error_and_msg", m, 1)

FromErrorsAndMsg ==
    /\ pc = "start"
    /\ \E m \in Msgs, es \in AnyhowLists :
        Built(Mishap_from_errors_and_msg(m, es), "from_errors_and_msg", m, Len(es))

\* from_error_tree of a tree of another crate, or of the Mishap built so far.
FromErrorTree ==
    \E t \in (IF pc = "start" THEN ForeignTrees ELSE { mishap }) :
        Built(Mishap_from_error_tree(t), "from_error_tree", impl_display(t), 0)

FromErrorTreeAndMsg ==
    \E m \in Msgs, t \in (IF pc = "start" THEN ForeignTrees ELSE { mishap }) :
        Built(Mishap_from_error_tree_and_msg(m, t), "from_error_tree_and_msg", m, 1)

\* from_error_trees_and_msg of no tree at all, or of the Mishap built so far
\* and one built next to it, in either order.
FromErrorTreesAndMsg ==
    \E m \in Msgs :
        \E srcs \in (IF pc = "start" THEN { <<>> }
                     ELSE UNION { { <<mishap, sib>>, <<sib, mishap>> } : sib \in Siblings }) :
            Built(Mishap_from_error_trees_and_msg(m, srcs),
                  "from_error_trees_and_msg", m, Len(srcs))

FromBorrowedError ==
    /\ pc = "start"
    /\ \E e \in Anyhows :
        Built(Mishap_from_borrowed_error(e), "from_borrowed_error", display(e), 0)

\* from_borrowed_tree of a tree of another crate, or of the Mishap built so far.
FromBorrowedTree ==
    \E t \in (IF pc = "start" THEN ForeignTrees ELSE { as_dyn(mishap) }) :
        Built(Mishap_from_borrowed_tree(t), "from_borrowed_tree",
              display(t), Len(sources(t)))

FromMsgAndCauseChain ==
    /\ pc = "start"
    /\ \E m \in Msgs, causes \in CauseChains :
        Built(Mishap_from_msg_and_cause_chain(m, causes),
              "from_msg_and_cause_chain", m, 0)

WrapSingle ==
    /\ pc = "built"
    /\ \E m \in Msgs : Built(Mishap_wrap_single(mishap, m), "wrap_single", m, 1)

\* assert_outputs: mishap.display_tree().to_string() and format!("{:?}", mishap)
FormatDebug ==
    /\ pc = "built"
    /\ out' = render_tree(as_dyn(mishap))
    /\ dbg' = Mishap_Debug_fmt(NewWriter, mishap).sink
    /\ pc' = "shown"
    /\ UNCHANGED <<tree, iter, json, dtree, json2, dtree2, stree, sout, fw, mishap, last, rs, cv, obj, seqs>>

NextMishap ==
    \/ FromMsg
    \/ FromAnyhow
    \/ FromAnyhowAndMsg
    \/ FromAnyhowsAndMsg
    \/ FromError
    \/ FromErrorAndMsg
    \/ FromErrorsAndMsg
    \/ FromErrorTree
    \/ FromErrorTreeAndMsg
    \/ FromErrorTreesAndMsg
    \/ FromBorrowedError
    \/ FromBorrowedTree
    \/ FromMsgAndCauseChain
    \/ WrapSingle
    \/ FormatDebug

SpecMishap == InitMishap /\ [][NextMishap]_vars

(***************************************************************************)
(* display_tree and StringErrorTree::new, one step at a time               *)
(*                                                                         *)
(* A rendering is [pc, f, stack]: f is its writer and stack its call       *)
(* stack, innermost call last.  A frame of kind "sources" is a call that   *)
(* is walking the sources of a node: srcs is what the node's sources()     *)
(* yielded, i the position of its iterator, kind the DisplayKind it hands  *)
(* to display_nested_source and pop the IndentWriters dropped when it      *)
(* returns.  A frame of kind "chain" is a display_nested_error call in its *)
(* while-let loop: next is the loop variable, kind the arm.                *)
(*                                                                         *)
(* A conversion is [pc, stack, result]: each frame is a call of new or     *)
(* from_error with the node it converts, the message it took and the       *)
(* sources it has collected so far.                                        *)
(***************************************************************************)

SourcesFrame(srcs, kind, pop) ==
    [type |-> "sources", srcs |-> srcs, i |-> 1, kind |-> kind, pop |-> pop]

ChainFrame(next, kind) ==
    [type |-> "chain", srcs |-> next, i |-> 1, kind |-> kind, pop |-> 0]

RECURSIVE into_inner_n(_, _)
into_inner_n(f, n) == IF n = 0 THEN f ELSE into_inner_n(into_inner(f), n - 1)

\* display_tree up to its first display_nested_source call.
display_tree_enter(r, t) ==
    LET f1   == write_fmt(r.f, << <<>>, display(t) >>)
        srcs == sources(t)
    IN  IF srcs = <<>> THEN [r EXCEPT !.pc = "done", !.f = f1]
        ELSE [r EXCEPT !.pc = "run",
                       !.f = IndentWriter_new(Indent2, write_fmt(f1, <<CausedByTree>>)),
                       !.stack = << SourcesFrame(srcs,
                                        IF Len(srcs) = 1 THEN "Single" ELSE "Multi", 1) >>]

\* display_nested_source(f, src, parent_kind) up to the point where it walks
\* the sources of src or enters the loop over its causes.
display_nested_source_enter(r, src, parent_kind) ==
    LET indent == IndentWriter_new_skip_initial(Indent2, r.f)
        glyph  == IF parent_kind = "Single" THEN <<"-", " ">> ELSE <<"+", " ">>
        f1     == into_inner(write_fmt(indent, <<glyph, display(src), <<"\n">> >>))
        srcs   == sources(src)
    IN  IF src.kind = "Error"
        THEN [r EXCEPT !.f = f1, !.stack = Append(@, ChainFrame(source(src), parent_kind))]
        ELSE IF srcs = <<>> THEN [r EXCEPT !.f = f1]
        ELSE IF Len(srcs) = 1 /\ parent_kind = "Single"
        THEN [r EXCEPT !.f = f1, !.stack = Append(@, SourcesFrame(srcs, "Single", 0))]
        ELSE [r EXCEPT !.f = IndentWriter_new(Indent2, f1),
                       !.stack = Append(@, SourcesFrame(srcs,
                                     IF Len(srcs) = 1 THEN "Single" ELSE "Multi", 1))]

\* One iteration of the while-let loop of display_nested_error.
display_nested_error_iterate(r, top) ==
    LET src    == top.srcs[1]
        n      == Len(r.stack)
        indent == IndentWriter_new_skip_initial(
                      IF top.kind = "Single" THEN Indent2 ELSE Indent4, r.f)
        bullet == IF top.kind = "Single" THEN <<"-", " ">> ELSE <<" ", " ", "-", " ">>
        f1     == into_inner(write_fmt(indent, <<bullet, display(src), <<"\n">> >>))
    IN  [r EXCEPT !.f = f1, !.stack[n].srcs = source(src)]

\* Variant: the loop writes the link but does not advance its variable.
display_tree_step_stuck(r, t) ==
    IF r.pc = "start" THEN display_tree_enter(r, t)
    ELSE LET n   == Len(r.stack)
             top == r.stack[n]
         IN  IF n = 0 THEN [r EXCEPT !.pc = "done"]
             ELSE IF top.type = "chain"
             THEN IF top.srcs = <<>>
                  THEN [r EXCEPT !.stack = SubSeq(@, 1, n - 1)]
                  ELSE [display_nested_error_iterate(r, top) EXCEPT
                            !.stack[n].srcs = top.srcs]
             ELSE IF top.i > Len(top.srcs)
             THEN [r EXCEPT !.stack = SubSeq(@, 1, n - 1),
                            !.f = into_inner_n(@, top.pop)]
             ELSE display_nested_source_enter(
                      [r EXCEPT !.stack[n].i = @ + 1], top.srcs[top.i], top.kind)

\* Variant: a finished call does not drop its IndentWriter.
display_tree_step_no_drop(r, t) ==
    IF r.pc = "start" THEN display_tree_enter(r, t)
    ELSE LET n   == Len(r.stack)
             top == r.stack[n]
         IN  IF n = 0 THEN [r EXCEPT !.pc = "done"]
             ELSE IF top.type = "chain"
             THEN IF top.srcs = <<>>
                  THEN [r EXCEPT !.stack = SubSeq(@, 1, n - 1)]
                  ELSE display_nested_error_iterate(r, top)
             ELSE IF top.i > Len(top.srcs)
             THEN [r EXCEPT !.stack = SubSeq(@, 1, n - 1)]
             ELSE display_nested_source_enter(
                      [r EXCEPT !.stack[n].i = @ + 1], top.srcs[top.i], top.kind)

\* The next step of the rendering r of the tree t: the innermost call takes
\* the next source of its iterator, runs one loop iteration, or returns.
display_tree_step(r, t) ==
    IF r.pc = "start" THEN display_tree_enter(r, t)
    ELSE LET n   == Len(r.stack)
             top == r.stack[n]
         IN  IF n = 0 THEN [r EXCEPT !.pc = "done"]
             ELSE IF top.type = "chain"
             THEN IF top.srcs = <<>>
                  THEN [r EXCEPT !.stack = SubSeq(@, 1, n - 1)]
                  ELSE display_nested_error_iterate(r, top)
             ELSE IF top.i > Len(top.srcs)
             THEN [r EXCEPT !.stack = SubSeq(@, 1, n - 1),
                            !.f = into_inner_n(@, top.pop)]
             ELSE display_nested_source_enter(
                      [r EXCEPT !.stack[n].i = @ + 1], top.srcs[top.i], top.kind)

\* A call of StringErrorTree::new or from_error on node: msg is
\* node.to_string(), acc the sources collected so far.
ConvertFrame(node) == [node |-> node, msg |-> display(node), acc |-> <<>>]

\* The next step of the conversion c of the tree t: the innermost call maps
\* the next source of the iterator, or returns from_msg_and_sources.
StringErrorTree_new_step(c, t) ==
    IF c.pc = "start"
    THEN [c EXCEPT !.pc = "run", !.stack = << ConvertFrame(t) >>]
    ELSE LET n   == Len(c.stack)
             top == c.stack[n]
             v   == from_msg_and_sources(top.msg, top.acc)
         IN  IF Len(top.acc) < Len(top.node.sources)
             THEN [c EXCEPT !.stack =
                      Append(@, ConvertFrame(top.node.sources[Len(top.acc) + 1]))]
             ELSE IF n = 1
             THEN [c EXCEPT !.pc = "done", !.stack = <<>>, !.result = v]
             ELSE [c EXCEPT !.stack =
                      [SubSeq(@, 1, n - 1) EXCEPT ![n - 1].acc = Append(@, v)]]

(***************************************************************************)
(* The operations on a tree, any number of times in any order              *)
(*                                                                         *)
(* display_tree, Ser serialization and StringErrorTree::new all take the   *)
(* tree by shared reference; out, json and stree hold the latest result of *)
(* each.                                                                   *)
(***************************************************************************)

InitFrame ==
    /\ tree \in Trees
    /\ iter \in IterKinds
    /\ pc = "start"
    /\ json = NoText
    /\ dtree = NoResult
    /\ json2 = NoText
    /\ dtree2 = NoResult
    /\ stree = NoTree
    /\ out = NoText
    /\ sout = NoText
    /\ fw = NewWriter
    /\ mishap = NoMishap
    /\ last = NoOp
    /\ dbg = NoText
    /\ rs = NoProcs
    /\ cv = IdleConverter
    /\ obj = NoMishap
    /\ seqs = NoCalls

\* Variant: walking the sources takes them out of the tree.
RenderTree_drain ==
    /\ out' = render_tree(tree)
    /\ tree' = TreeNode(display(tree), <<>>)
    /\ UNCHANGED <<iter, pc, json, dtree, json2, dtree2, stree, sout, fw, mishap, last, dbg, rs, cv, obj, seqs>>

\* tree.display_tree().to_string()
RenderTree ==
    /\ out' = render_tree(tree)
    /\ UNCHANGED <<tree, iter, pc, json, dtree, json2, dtree2, stree, sout, fw, mishap, last, dbg, rs, cv, obj, seqs>>

\* serde_json::to_string(&Ser::new(&tree))
SerializeTree ==
    /\ json' = to_string(tree, iter)
    /\ UNCHANGED <<tree, iter, pc, dtree, json2, dtree2, stree, out, sout, fw, mishap, last, dbg, rs, cv, obj, seqs>>

\* StringErrorTree::new(&tree)
ConvertTree ==
    /\ stree' = StringErrorTree_new(tree)
    /\ UNCHANGED <<tree, iter, pc, json, dtree, json2, dtree2, out, sout, fw, mishap, last, dbg, rs, cv, obj, seqs>>

NextFrame ==
    \/ RenderTree
    \/ SerializeTree
    \/ ConvertTree

SpecFrame == InitFrame /\ [][NextFrame]_vars

(***************************************************************************)
(* Concurrent renderings and a conversion of one tree                      *)
(*                                                                         *)
(* rs[p] is the rendering of thread p, with its own sink, cv a conversion  *)
(* running next to it; all of them hold the tree by shared reference and   *)
(* any of them takes the next step.  Two threads run: two renderings, or a *)
(* rendering and a conversion.                                             *)
(***************************************************************************)

\* No conversion runs.
NoConverter == [pc |-> "absent", stack |-> <<>>, result |-> NoTree]

ThreadSets ==
    { [renderers |-> { "r1", "r2" }, converter |-> NoConverter],
      [renderers |-> { "r1" }, converter |-> IdleConverter] }

ConcTrees == UNION { TreesE(n, ml) : n \in 1..MaxConcNodes, ml \in BOOLEAN }

InitConc ==
    /\ tree \in ConcTrees
    /\ iter = "slice"
    /\ pc = "start"
    /\ json = NoText
    /\ dtree = NoResult
    /\ json2 = NoText
    /\ dtree2 = NoResult
    /\ stree = NoTree
    /\ out = NoText
    /\ sout = NoText
    /\ fw = NewWriter
    /\ mishap = NoMishap
    /\ last = NoOp
    /\ dbg = NoText
    /\ \E ts \in ThreadSets :
           /\ rs = [p \in ts.renderers |-> IdleRenderer]
           /\ cv = ts.converter
    /\ obj = NoMishap
    /\ seqs = NoCalls

\* Thread p takes the next step of its display_tree call.
RenderStep(p) ==
    /\ rs[p].pc # "done"
    /\ rs' = [rs EXCEPT ![p] = display_tree_step(rs[p], tree)]
    /\ UNCHANGED <<tree, iter, pc, json, dtree, json2, dtree2, stree, out, sout, fw, mishap, last, dbg, cv, obj, seqs>>

\* The converting thread takes the next step of its StringErrorTree::new call.
ConvertStep ==
    /\ cv.pc \in { "start", "run" }
    /\ cv' = StringErrorTree_new_step(cv, tree)
    /\ UNCHANGED <<tree, iter, pc, json, dtree, json2, dtree2, stree, out, sout, fw, mishap, last, dbg, rs, obj, seqs>>

NextConc ==
    \/ \E p \in DOMAIN rs : RenderStep(p)
    \/ ConvertStep

SpecConc == InitConc /\ [][NextConc]_vars

(***************************************************************************)
(* Ownership wrappers                                                      *)
(*                                                                         *)
(* obj is the tree behind a stack of wrappers (&T, &mut T, Box<T>,         *)
(* Box<dyn ErrorTree>, Arc<T>); out and stree are its rendering and its    *)
(* canonical tree, taken through the outermost wrapper.                    *)
(***************************************************************************)

RECURSIVE WrapDepth(_)
WrapDepth(x) == IF x.kind \in WrapperKinds THEN 1 + WrapDepth(x.sources[1]) ELSE 0

InitWrap ==
    /\ tree \in ConcTrees
    /\ iter = "slice"
    /\ pc = "start"
    /\ json = NoText
    /\ dtree = NoResult
    /\ json2 = NoText
    /\ dtree2 = NoResult
    /\ stree = NoTree
    /\ out = NoText
    /\ sout = NoText
    /\ fw = NewWriter
    /\ mishap = NoMishap
    /\ last = NoOp
    /\ dbg = NoText
    /\ rs = NoProcs
    /\ cv = IdleConverter
    /\ obj = tree
    /\ seqs = NoCalls

\* &tree, &mut tree, Box::new(tree), tree.into_boxed(), Arc::new(tree)
Wrap ==
    /\ pc = "start"
    /\ WrapDepth(obj) < MaxWraps
    /\ \E w \in WrapperKinds : obj' = Wrapper(w, obj)
    /\ UNCHANGED <<tree, iter, pc, json, dtree, json2, dtree2, stree, out, sout, fw, mishap, last, dbg, rs, cv, seqs>>

\* wrapped.display_tree().to_string() and StringErrorTree::new(&wrapped)
UseWrapped ==
    /\ pc = "start"
    /\ out' = render_tree(as_dyn(obj))
    /\ stree' = StringErrorTree_new(as_dyn(obj))
    /\ pc' = "used"
    /\ UNCHANGED <<tree, iter, json, dtree, json2, dtree2, sout, fw, mishap, last, dbg, rs, cv, obj, seqs>>

NextWrap ==
    \/ Wrap
    \/ UseWrapped

SpecWrap == InitWrap /\ [][NextWrap]_vars

(***************************************************************************)
(* Cloning a borrowed tree                                                 *)
(*                                                                         *)
(* mishap is Mishap::from_borrowed_tree(&tree); stree and out are the      *)
(* canonical tree and the rendering of the clone.                          *)
(***************************************************************************)

InitBorrow ==
    /\ tree \in Trees
    /\ iter = "slice"
    /\ pc = "start"
    /\ json = NoText
    /\ dtree = NoResult
    /\ json2 = NoText
    /\ dtree2 = NoResult
    /\ stree = NoTree
    /\ out = NoText
    /\ sout = NoText
    /\ fw = NewWriter
    /\ mishap = NoMishap
    /\ last = NoOp
    /\ dbg = NoText
    /\ rs = NoProcs
    /\ cv = IdleConverter
    /\ obj = NoMishap
    /\ seqs = NoCalls

\* let clone = Mishap::from_borrowed_tree(&tree)
BorrowTree ==
    /\ pc = "start"
    /\ mishap' = Mishap_from_borrowed_tree(tree)
    /\ pc' = "borrowed"
    /\ UNCHANGED <<tree, iter, json, dtree, json2, dtree2, stree, out, sout, fw, last, dbg, rs, cv, obj, seqs>>

\* StringErrorTree::new(&clone)
ConvertClone ==
    /\ pc = "borrowed"
    /\ stree = NoTree
    /\ stree' = StringErrorTree_new(as_dyn(mishap))
    /\ UNCHANGED <<tree, iter, pc, json, dtree, json2, dtree2, out, sout, fw, mishap, last, dbg, rs, cv, obj, seqs>>

\* clone.display_tree().to_string()
RenderClone ==
    /\ pc = "borrowed"
    /\ out = NoText
    /\ out' = render_tree(as_dyn(mishap))
    /\ UNCHANGED <<tree, iter, pc, json, dtree, json2, dtree2, stree, sout, fw, mishap, last, dbg, rs, cv, obj, seqs>>

NextBorrow ==
    \/ BorrowTree
    \/ ConvertClone
    \/ RenderClone

SpecBorrow == InitBorrow /\ [][NextBorrow]_vars

(***************************************************************************)
(* Rendering messages of several lines                                     *)
(*                                                                         *)
(* tree has exactly one node with a message of several lines, below the    *)
(* root; out is its rendering.                                             *)
(***************************************************************************)

RECURSIVE WithMessage(_, _)
\* The tree t with message m in the place of its multi-line message.
WithMessage(t, m) ==
    [kind    |-> t.kind,
     msg     |-> IF t.msg = MultiLine THEN m ELSE t.msg,
     sources |-> [i \in 1..Len(t.sources) |-> WithMessage(t.sources[i], m)]]

LineTrees ==
    { WithMessage(t, m) :
        t \in { u \in UNION { TreesE(n, TRUE) : n \in 2..MaxNodes } : display(u) = Plain },
        m \in LineMsgs }

InitLines ==
    /\ tree \in LineTrees
    /\ iter = "slice"
    /\ pc = "start"
    /\ json = NoText
    /\ dtree = NoResult
    /\ json2 = NoText
    /\ dtree2 = NoResult
    /\ stree = NoTree
    /\ out = NoText
    /\ sout = NoText
    /\ fw = NewWriter
    /\ mishap = NoMishap
    /\ last = NoOp
    /\ dbg = NoText
    /\ rs = NoProcs
    /\ cv = IdleConverter
    /\ obj = NoMishap
    /\ seqs = NoCalls

\* tree.display_tree().to_string()
RenderLines ==
    /\ pc = "start"
    /\ out' = render_tree(tree)
    /\ pc' = "rendered"
    /\ UNCHANGED <<tree, iter, json, dtree, json2, dtree2, stree, sout, fw, mishap, last, dbg, rs, cv, obj, seqs>>

NextLines == RenderLines

SpecLines == InitLines /\ [][NextLines]_vars

(***************************************************************************)
(* A leaf chain rendered through the two displayers                        *)
(*                                                                         *)
(* obj is an error (the first link of a chain); out is the text of         *)
(* ErrorTreeSource::Error(&error).display_tree(), sout the text of         *)
(* ErrorWrapper::new(error).display_tree().                                *)
(***************************************************************************)

\* ErrorWrapper<E> as an ErrorTree: Display is that of the error, sources()
\* is error.source() tagged Error.
ErrorWrapper(error) == TreeNode(display(error), source(error))

\* ErrorTreeSourceDisplay::fmt for a source of kind Error, into a String.
render_error_source(error) == display_error(NewWriter, error).sink

\* The chains of up to MaxNodes links, one of which may carry a message of
\* several lines.
LeafChains ==
    UNION { ChainsE(n, FALSE) : n \in 1..MaxNodes }
    \cup { WithMessage(c, m) : c \in UNION { ChainsE(n, TRUE) : n \in 1..MaxNodes },
                               m \in LineMsgs }

InitChain ==
    /\ tree = NoMishap
    /\ iter = "slice"
    /\ pc = "start"
    /\ json = NoText
    /\ dtree = NoResult
    /\ json2 = NoText
    /\ dtree2 = NoResult
    /\ stree = NoTree
    /\ out = NoText
    /\ sout = NoText
    /\ fw = NewWriter
    /\ mishap = NoMishap
    /\ last = NoOp
    /\ dbg = NoText
    /\ rs = NoProcs
    /\ cv = IdleConverter
    /\ obj \in LeafChains
    /\ seqs = NoCalls

\* ErrorTreeSource::Error(&error).display_tree().to_string()
DisplaySource ==
    /\ out = NoText
    /\ out' = render_error_source(obj)
    /\ UNCHANGED <<tree, iter, pc, json, dtree, json2, dtree2, stree, sout, fw, mishap, last, dbg, rs, cv, obj, seqs>>

\* ErrorWrapper::new(error).display_tree().to_string()
DisplayWrapper ==
    /\ sout = NoText
    /\ sout' = render_tree(ErrorWrapper(obj))
    /\ UNCHANGED <<tree, iter, pc, json, dtree, json2, dtree2, stree, out, fw, mishap, last, dbg, rs, cv, obj, seqs>>

NextChain ==
    \/ DisplaySource
    \/ DisplayWrapper

SpecChain == InitChain /\ [][NextChain]_vars

(***************************************************************************)
(* Two trees rendered side by side                                         *)
(*                                                                         *)
(* tree and obj are two error trees with single-line messages and the same *)
(* number of nodes; out and sout are their renderings.                     *)
(***************************************************************************)

\* The trees of exactly n nodes whose messages are single lines: all nodes
\* carry the same message, or one node carries the other one.
SingleLineTrees(n) ==
    TreesE(n, FALSE) \cup { WithMessage(t, Other) : t \in TreesE(n, TRUE) }

InitPair ==
    /\ \E n \in 1..MaxPairNodes :
          /\ tree \in SingleLineTrees(n)
          /\ obj \in TreesE(n, FALSE)
    /\ iter = "slice"
    /\ pc = "start"
    /\ json = NoText
    /\ dtree = NoResult
    /\ json2 = NoText
    /\ dtree2 = NoResult
    /\ stree = NoTree
    /\ out = NoText
    /\ sout = NoText
    /\ fw = NewWriter
    /\ mishap = NoMishap
    /\ last = NoOp
    /\ dbg = NoText
    /\ rs = NoProcs
    /\ cv = IdleConverter
    /\ seqs = NoCalls

\* tree.display_tree().to_string() and other.display_tree().to_string()
RenderPair ==
    /\ pc = "start"
    /\ out' = render_tree(tree)
    /\ sout' = render_tree(obj)
    /\ pc' = "rendered"
    /\ UNCHANGED <<tree, iter, json, dtree, json2, dtree2, stree, fw, mishap, last, dbg, rs, cv, obj, seqs>>

SpecPair == InitPair /\ [][RenderPair]_vars

(***************************************************************************)
(* Rendering into a sink that fails                                        *)
(*                                                                         *)
(* display_tree(f, tree) on a fmt::Write sink f whose k-th write_str call  *)
(* returns Err; fw is the writer when display_tree returns, out the        *)
(* rendering of the same tree into a String.                               *)
(***************************************************************************)

\* The write_str calls a full rendering of t makes on its sink.
NumWrites(t) == display_tree(NewWriter, t).writes

InitFail ==
    /\ tree \in Trees
    /\ iter = "slice"
    /\ pc = "start"
    /\ json = NoText
    /\ dtree = NoResult
    /\ json2 = NoText
    /\ dtree2 = NoResult
    /\ stree = NoTree
    /\ out = NoText
    /\ sout = NoText
    /\ fw = NewWriter
    /\ mishap = NoMishap
    /\ last = NoOp
    /\ dbg = NoText
    /\ rs = NoProcs
    /\ cv = IdleConverter
    /\ obj = NoMishap
    /\ seqs = NoCalls

\* display_tree(&mut failing_sink, &tree), next to tree.display_tree().to_string()
RenderFailing ==
    /\ pc = "start"
    /\ out' = render_tree(tree)
    /\ \E k \in 1..NumWrites(tree) : fw' = display_tree(FailingWriter(k), tree)
    /\ pc' = "failed"
    /\ UNCHANGED <<tree, iter, json, dtree, json2, dtree2, stree, sout, mishap, last, dbg, rs, cv, obj, seqs>>

NextFail == RenderFailing

SpecFail == InitFail /\ [][NextFail]_vars

(***************************************************************************)
(* Reading a rendering back: lines and bullet entries                      *)
(***************************************************************************)

RECURSIVE SplitLines(_, _, _)
\* The lines of a text from index i on, without their newlines; cur is the
\* line being collected.  A last line without newline counts if non-empty.
SplitLines(text, i, cur) ==
    IF i > Len(text) THEN (IF cur = <<>> THEN <<>> ELSE <<cur>>)
    ELSE IF text[i] = "\n" THEN <<cur>> \o SplitLines(text, i + 1, <<>>)
    ELSE SplitLines(text, i + 1, Append(cur, text[i]))

Lines(text) == SplitLines(text, 1, <<>>)

RECURSIVE LeadingSpaces(_, _)
\* Number of spaces a line starts with, counting from index i.
LeadingSpaces(line, i) ==
    IF i <= Len(line) /\ line[i] = " " THEN 1 + LeadingSpaces(line, i + 1) ELSE 0

\* A bullet line: indentation, then the glyph "+" or "-", then a space.
IsBullet(line) ==
    LET n == LeadingSpaces(line, 1) IN
    /\ Len(line) >= n + 2
    /\ line[n + 1] \in {"+", "-"}
    /\ line[n + 2] = " "

BulletOf(line) ==
    LET n == LeadingSpaces(line, 1) IN
    [indent |-> n, glyph |-> line[n + 1], text |-> SubSeq(line, n + 3, Len(line))]

RECURSIVE BulletsOfLines(_, _)
BulletsOfLines(ls, i) ==
    IF i > Len(ls) THEN <<>>
    ELSE (IF IsBullet(ls[i]) THEN <<BulletOf(ls[i])>> ELSE <<>>)
         \o BulletsOfLines(ls, i + 1)

\* The bullet entries of a rendering, in the order written.
Bullets(text) == BulletsOfLines(Lines(text), 1)

\* The first line of a message.
FirstLine(m) == IF PosNewline(m, 1) = 0 THEN m ELSE SubSeq(m, 1, PosNewline(m, 1) - 1)

(***************************************************************************)
(* The shape of a tree: its non-root nodes in pre-order                    *)
(***************************************************************************)

RECURSIVE PreorderOf(_, _, _, _)
\* The nodes below the sources srcs of the node with index p (0: the root)
\* and fan-out pf, in pre-order, numbered from k + 1.  Each entry records
\* its message, its own fan-out, its parent's index and fan-out.
PreorderOf(srcs, p, pf, k) ==
    IF srcs = <<>> THEN <<>>
    ELSE LET s     == Head(srcs)
             below == PreorderOf(s.sources, k + 1, Len(s.sources), k + 1)
             mine  == << [msg |-> s.msg, fan |-> Len(s.sources),
                          parent |-> p, pfan |-> pf] >> \o below
         IN  mine \o PreorderOf(Tail(srcs), p, pf, k + Len(mine))

Preorder(t) == PreorderOf(t.sources, 0, Len(t.sources), 0)

\* Has the harness passed the step that sets out / sout / stree?
Displayed == pc \in {"disp", "done"}

Converted == pc \in {"new", "disp", "done"}

(***************************************************************************)
(* Properties                                                              *)
(***************************************************************************)

\* C1: the renderer and the canonical-tree converter observe the same shape:
\* the bullets display_tree emits for the tree correspond one-to-one, in
\* pre-order, to the non-root nodes of the canonical tree (same count, same
\* messages in the same order, glyphs telling the same fan-out), and
\* rendering the canonical tree gives the same text as rendering the tree.
C1_SameShape ==
    pc = "done" =>
        LET B == Bullets(out)
            P == Preorder(stree)
        IN  /\ out = sout
            /\ Len(B) = Len(P)
            /\ \A i \in 1..Len(P) :
                  /\ B[i].text = FirstLine(P[i].msg)
                  /\ (B[i].glyph = "+") <=> (P[i].pfan > 1)

\* A tree with several sources, one of them a chain link that has a cause,
\* has been rendered directly and through its canonical tree.
C1_Witness ==
    /\ pc = "done"
    /\ Len(sources(tree)) > 1
    /\ \E i \in 1..Len(sources(tree)) :
          sources(tree)[i].kind = "Error" /\ source(sources(tree)[i]) # <<>>

\* The nodes after node i in pre-order that are reached from it through
\* nodes with exactly one cause: the run of single-cause descendants of i.
Run(P, i) == { j \in (i + 1)..Len(P) : \A k \in i..(j - 1) : P[k].fan = 1 }

\* C2: under a node with more than one source, a source with exactly one
\* cause is a "+" entry and its whole run of single-cause descendants is
\* rendered as "-" lines exactly one level (two spaces) deeper than the "+"
\* entry, whatever the length of the run and whether it is made of chain
\* links or of single-source tree nodes.
C2_MultiThenSingleRun ==
    Displayed =>
        LET B == Bullets(out)
            P == Preorder(tree)
        IN  /\ Len(B) = Len(P)
            /\ \A i \in 1..Len(P) :
                  (P[i].pfan > 1 /\ P[i].fan = 1) =>
                      /\ B[i].glyph = "+"
                      /\ \A j \in Run(P, i) :
                            /\ B[j].glyph = "-"
                            /\ B[j].indent = B[i].indent + Len(Indent2)

\* A rendered tree with a source, one of several, whose run of single-cause
\* descendants has at least two nodes.
C2_Witness ==
    /\ Displayed
    /\ \E i \in 1..Len(Preorder(tree)) :
          /\ Preorder(tree)[i].pfan > 1
          /\ Preorder(tree)[i].fan = 1
          /\ Cardinality(Run(Preorder(tree), i)) >= 2

\* C3: when the root has exactly one source and every node below it has at
\* most one source, every node below the root is rendered on its own bullet
\* line, prefixed "- ", at one and the same indentation of two spaces.
C3_SingleChainFlat ==
    Displayed =>
        LET B == Bullets(out)
            P == Preorder(tree)
        IN  (Len(sources(tree)) = 1 /\ \A i \in 1..Len(P) : P[i].fan <= 1) =>
                /\ Len(B) = Len(P)
                /\ \A i \in 1..Len(P) :
                      /\ B[i].glyph = "-"
                      /\ B[i].indent = Len(Indent2)
                      /\ B[i].text = FirstLine(P[i].msg)

\* A rendered tree that is one run of at least three single causes.
C3_Witness ==
    /\ Displayed
    /\ Len(sources(tree)) = 1
    /\ Len(Preorder(tree)) >= 3
    /\ \A i \in 1..Len(Preorder(tree)) : Preorder(tree)[i].fan <= 1

\* C4: a nested tree node with more than one source renders all of its
\* sources as "+" entries exactly one level (two spaces) deeper than its own
\* bullet line, whether it was entered in Single or in Multi state.
C4_MultiChildrenOneDeeper ==
    Displayed =>
        LET B == Bullets(out)
            P == Preorder(tree)
        IN  /\ Len(B) = Len(P)
            /\ \A i \in 1..Len(P) : \A j \in 1..Len(P) :
                  (P[i].fan > 1 /\ P[j].parent = i) =>
                      /\ B[j].glyph = "+"
                      /\ B[j].indent = B[i].indent + Len(Indent2)

\* A rendered tree with a nested node of several sources that is itself one
\* of several sources (entered in Multi state).
C4_Witness ==
    /\ Displayed
    /\ \E i \in 1..Len(Preorder(tree)) :
          Preorder(tree)[i].fan > 1 /\ Preorder(tree)[i].pfan > 1

\* C5: at every depth a bullet's glyph is "+" if and only if the node it
\* shows is one of several sources of its parent, and "-" if and only if it
\* is its parent's only source, for tree nodes and chain links alike.
C5_GlyphIffParentFanOut ==
    Displayed =>
        LET B == Bullets(out)
            P == Preorder(tree)
        IN  /\ Len(B) = Len(P)
            /\ \A i \in 1..Len(P) :
                  /\ (B[i].glyph = "+") <=> (P[i].pfan > 1)
                  /\ (B[i].glyph = "-") <=> (P[i].pfan = 1)

\* A rendered tree whose root has several sources, a chain link with a
\* cause among them.
C5_Witness ==
    /\ Displayed
    /\ Len(sources(tree)) > 1
    /\ \E i \in 1..Len(sources(tree)) :
          sources(tree)[i].kind = "Error" /\ source(sources(tree)[i]) # <<>>
    /\ \E i \in 1..Len(sources(tree)) : sources(tree)[i].kind = "Tree"

\* C6: for a tree whose sources() is empty, display_tree writes exactly the
\* node's display string: no banner, no bullet, no added newline.
C6_ZeroSources ==
    (Displayed /\ sources(tree) = <<>>) => out = display(tree)

\* A rendered tree without sources and with a multi-line message.
C6_Witness ==
    /\ Displayed
    /\ sources(tree) = <<>>
    /\ PosNewline(display(tree), 1) # 0

\* The line of the banner.
BannerLine == <<"C", "a", "u", "s", "e", "d", " ", "b", "y", ":">>

\* The bullets of the root's own sources: the only bullet of a single
\* source, or the "+" entries at the first indentation level.
TopBullets(B, n) ==
    IF n = 1 THEN <<B[1]>>
    ELSE SelectSeq(B, LAMBDA b : b.glyph = "+" /\ b.indent = Len(Indent2))

\* C7: for a tree with at least one source, display_tree writes the root's
\* display verbatim, then a blank line, the line "Caused by:", a blank line,
\* and then one block per source in sources() order; the banner is written
\* exactly once in the whole rendering.
C7_RootBannerBlocks ==
    (Displayed /\ sources(tree) # <<>>) =>
        LET m    == display(tree)
            srcs == sources(tree)
            rest == SubSeq(out, Len(m) + Len(CausedByTree) + 1, Len(out))
            top  == TopBullets(Bullets(rest), Len(srcs))
        IN  /\ Len(out) >= Len(m) + Len(CausedByTree)
            /\ SubSeq(out, 1, Len(m)) = m
            /\ SubSeq(out, Len(m) + 1, Len(m) + Len(CausedByTree))
                  = <<"\n", "\n">> \o BannerLine \o <<"\n", "\n">>
            /\ Len(top) = Len(srcs)
            /\ \A k \in 1..Len(srcs) : top[k].text = FirstLine(display(srcs[k]))
            /\ Cardinality({ i \in 1..Len(Lines(out)) : Lines(out)[i] = BannerLine }) = 1
            /\ \A i \in 1..Len(Lines(rest)) : Lines(rest)[i] # BannerLine

\* A rendered tree with several sources whose messages differ, one of them
\* a nested tree node with sources of its own.
C7_Witness ==
    /\ Displayed
    /\ Len(sources(tree)) > 1
    /\ display(sources(tree)[1]) # display(sources(tree)[2])
    /\ \E i \in 1..Len(sources(tree)) :
          sources(tree)[i].kind = "Tree" /\ sources(sources(tree)[i]) # <<>>

\* C8: serializing the tree with Ser, deserializing the result into the
\* string tree type and serializing that value again yields output identical
\* to the first serialization, and deserializing the second output yields a
\* tree equal to the first deserialized tree.
C8_RoundTrip ==
    /\ (pc \notin {"start", "ser"}) => dtree.ok
    /\ (pc \in {"ser2", "de2"}) => json2 = json
    /\ (pc = "de2") => (dtree2.ok /\ dtree.ok /\ dtree2.val = dtree.val)

\* C9: the canonical tree built directly from the tree is structurally equal
\* to the tree obtained by serializing it with Ser and deserializing the
\* output.
C9_DirectEqualsDeserialized ==
    Converted => (dtree.ok /\ dtree.val = stree)

\* The messages of a leaf chain, outermost link first.
RECURSIVE ChainMsgs(_)
ChainMsgs(error) ==
    <<display(error)>> \o
        (IF source(error) = <<>> THEN <<>> ELSE ChainMsgs(source(error)[1]))

\* st is a run of nested nodes carrying the messages ms: every node but the
\* last has exactly one child, the last has none.
RECURSIVE IsSpine(_, _)
IsSpine(st, ms) ==
    /\ st.msg = Head(ms)
    /\ IF Len(ms) = 1 THEN st.sources = <<>>
       ELSE Len(st.sources) = 1 /\ IsSpine(st.sources[1], Tail(ms))

\* st carries the display string of the tree node t and has one child per
\* source, in sources() order: a spine for a chain, a mirror for a tree.
RECURSIVE Mirrors(_, _)
Mirrors(t, st) ==
    /\ st.msg = display(t)
    /\ Len(st.sources) = Len(sources(t))
    /\ \A i \in 1..Len(sources(t)) :
          IF sources(t)[i].kind = "Error"
          THEN IsSpine(st.sources[i], ChainMsgs(sources(t)[i]))
          ELSE Mirrors(sources(t)[i], st.sources[i])

\* C10: the canonical tree has one node per tree node and one per chain
\* link: a chain source of N links becomes N nested nodes of which the first
\* N-1 have exactly one child and the last has none, and a tree node becomes
\* a node with its display string and one child per source, in order,
\* whatever the fan-out around it.
C10_CanonicalShape ==
    Converted =>
        /\ Mirrors(tree, stree)
        /\ Len(Preorder(stree)) = Len(Preorder(tree))

\* A converted tree with several sources, one of them a chain of at least
\* three links.
C10_Witness ==
    /\ Converted
    /\ Len(sources(tree)) > 1
    /\ \E i \in 1..Len(sources(tree)) :
          sources(tree)[i].kind = "Error" /\ Len(ChainMsgs(sources(tree)[i])) >= 3

(***************************************************************************)
(* C11: a failing write aborts the rendering                               *)
(***************************************************************************)

IsPrefix(p, s) == Len(p) <= Len(s) /\ SubSeq(s, 1, Len(p)) = p

\* C11: when the k-th write to the sink fails during display_tree, the write
\* that failed is the last one the sink receives, display_tree returns Err,
\* and the text the sink accepted before it is a prefix of the full rendering.
C11_FailedWriteAborts ==
    pc = "failed" =>
        /\ fw.err
        /\ fw.writes = fw.failAt
        /\ IsPrefix(fw.sink, out)

\* A write fails below the banner, in the middle of a bullet line of a tree
\* with several levels, with part of the rendering accepted and the rest of
\* it never written.
C11_Witness ==
    /\ pc = "failed"
    /\ fw.err
    /\ fw.writes = fw.failAt
    /\ Len(fw.sink) > Len(display(tree)) + Len(CausedByTree)
    /\ fw.sink[Len(fw.sink)] # "\n"
    /\ Len(fw.sink) < Len(out)
    /\ \E i \in 1..Len(sources(tree)) : sources(tree)[i].sources # <<>>

(***************************************************************************)
(* C12: no Mishap is an empty branch                                       *)
(***************************************************************************)

RECURSIVE NoEmptyBranch(_)
\* No WrappedTree in x, at any depth, has an empty source list.
NoEmptyBranch(x) ==
    /\ x.kind = "WrappedTree" => x.sources # <<>>
    /\ \A i \in 1..Len(x.sources) : NoEmptyBranch(x.sources[i])

\* The constructors that go through TreeImpl::new_wrapped_tree.
WrappedTreeCalls ==
    { "from_anyhows_and_msg", "from_errors_and_msg", "from_error_tree_and_msg",
      "from_error_trees_and_msg", "from_borrowed_tree", "wrap_single" }

\* C12: after any sequence of Mishap constructor and wrapping calls, every
\* WrappedTree in the Mishap built holds at least one source, and a wrapped
\* tree built from a message and zero sources is a chain-backed Mishap whose
\* display is the message and whose sources() is empty.
C12_NoEmptyBranch ==
    /\ NoEmptyBranch(mishap)
    /\ (last.op \in WrappedTreeCalls /\ last.n = 0) =>
           /\ mishap.sources[1].kind = "TreeImpl::Error"
           /\ impl_display(mishap) = last.msg
           /\ impl_sources(mishap) = <<>>

\* from_error_trees_and_msg was called with a message and no source.
C12_Witness ==
    /\ pc = "built"
    /\ last.op = "from_error_trees_and_msg"
    /\ last.n = 0
    /\ impl_display(mishap) = MultiLine

(***************************************************************************)
(* C13: the operations leave the tree unchanged                            *)
(***************************************************************************)

C14_InterleavingsAgree ==
    /\ \A p \in DOMAIN rs : rs[p].pc = "done" =>
           rs[p].f.sink = render_tree(tree)
    /\ cv.pc = "done" => cv.result = StringErrorTree_new(tree)

\* One rendering has finished while the other is in the middle of a tree
\* with several levels, two IndentWriters deep.
C14_Witness ==
    /\ DOMAIN rs = { "r1", "r2" }
    /\ rs["r1"].pc = "done"
    /\ rs["r2"].pc = "run"
    /\ Len(rs["r2"].stack) >= 2
    /\ Len(rs["r2"].f.layers) >= 2
    /\ rs["r1"].f.sink = render_tree(tree)

(***************************************************************************)
(* C15: rendering and conversion terminate                                 *)
(***************************************************************************)

RECURSIVE ChainLen(_)
\* The links of a chain that starts at next (an Option of a link).
ChainLen(next) == IF next = <<>> THEN 0 ELSE 1 + ChainLen(source(next[1]))

RECURSIVE SourceWork(_), SourcesWork(_, _)
\* The steps display_nested_source takes for a source: entering it, and for
\* a chain one per further link and the return, for a tree with sources
\* those of its sources and the return.
SourceWork(src) ==
    IF src.kind = "Error" THEN 1 + ChainLen(source(src)) + 1
    ELSE IF sources(src) = <<>> THEN 1
    ELSE 1 + SourcesWork(sources(src), 1) + 1

\* The steps for the sources from position i on.
SourcesWork(srcs, i) ==
    IF i > Len(srcs) THEN 0 ELSE SourceWork(srcs[i]) + SourcesWork(srcs, i + 1)

RECURSIVE StackWork(_, _)
\* The steps the calls on a rendering's stack still have to take.
StackWork(stack, k) ==
    IF k > Len(stack) THEN 0
    ELSE (IF stack[k].type = "chain" THEN ChainLen(stack[k].srcs) + 1
          ELSE SourcesWork(stack[k].srcs, stack[k].i) + 1)
         + StackWork(stack, k + 1)

\* The steps a rendering of t still has to take.
RenderRank(r, t) ==
    IF r.pc = "done" THEN 0
    ELSE IF r.pc = "start"
    THEN (IF sources(t) = <<>> THEN 1 ELSE 1 + SourcesWork(sources(t), 1) + 2)
    ELSE StackWork(r.stack, 1) + 1

RECURSIVE NodeWork(_), ChildrenWork(_, _)
\* The steps a call of new or from_error on a node takes once it is on the
\* stack: one call per source, their steps, and its return.
NodeWork(node) == ChildrenWork(node.sources, 1) + 1

ChildrenWork(srcs, i) ==
    IF i > Len(srcs) THEN 0
    ELSE 1 + NodeWork(srcs[i]) + ChildrenWork(srcs, i + 1)

RECURSIVE ConvertStackWork(_, _)
\* The steps the calls on a conversion's stack still have to take: a call
\* that is not the innermost has one source being converted above it.
ConvertStackWork(stack, k) ==
    IF k > Len(stack) THEN 0
    ELSE ChildrenWork(stack[k].node.sources,
                      Len(stack[k].acc) + (IF k < Len(stack) THEN 2 ELSE 1)) + 1
         + ConvertStackWork(stack, k + 1)

\* The steps a conversion of t still has to take.
ConvertRank(c, t) ==
    IF c.pc = "done" THEN 0
    ELSE IF c.pc = "absent" THEN 0
    ELSE IF c.pc = "start" THEN 1 + NodeWork(t)
    ELSE ConvertStackWork(c.stack, 1)

\* The steps all the renderings and the conversion still have to take.
Rank ==
    (IF "r1" \in DOMAIN rs THEN RenderRank(rs["r1"], tree) ELSE 0)
    + (IF "r2" \in DOMAIN rs THEN RenderRank(rs["r2"], tree) ELSE 0)
    + ConvertRank(cv, tree)

AllDone ==
    /\ \A p \in DOMAIN rs : rs[p].pc = "done"
    /\ cv.pc \in { "done", "absent" }

\* C15: for every finite error tree, display_tree and the canonical
\* conversion finish: every step of the recursion over the sources and of
\* the loop over the causes lowers by one the number of steps left, which is
\* a natural number fixed by the tree's fan-out and chain lengths, a call
\* with steps left can take one, and it has returned when none is left.
C15_Terminates ==
    [][ /\ Rank > 0
        /\ Rank' = Rank - 1
        /\ Rank <= 2 * (3 * NodeCount(tree) + 1)
        /\ (Rank' = 0 <=> AllDone') ]_vars

\* Everything has returned for a tree with a chain of two links, whose
\* while-let loop ran, below a node that is itself a source.
C15_Witness ==
    /\ AllDone
    /\ cv.pc = "done"
    /\ Rank = 0
    /\ \E i \in 1..Len(sources(tree)) :
           /\ sources(tree)[i].kind = "Error"
           /\ sources(tree)[i].sources # <<>>

(***************************************************************************)
(* C16: ownership wrappers forward sources() unchanged                     *)
(***************************************************************************)

\* C16: a tree behind any stack of ownership wrappers yields from sources()
\* exactly the sequence the tree yields (same length, tags and order) and
\* displays the same string, so its rendering and its canonical tree equal
\* those of the tree.
C16_WrappersTransparent ==
    /\ obj.kind \in WrapperKinds \cup { "Tree" } =>
           /\ impl_sources(obj) = sources(tree)
           /\ impl_display(obj) = display(tree)
    /\ pc = "used" =>
           /\ out = render_tree(tree)
           /\ stree = StringErrorTree_new(tree)

\* An Arc of a Box<dyn ErrorTree> of a tree with sources of both tags has
\* been rendered and converted.
C16_Witness ==
    /\ pc = "used"
    /\ obj.kind = "Arc"
    /\ obj.sources[1].kind = "BoxDyn"
    /\ \E i, j \in 1..Len(sources(tree)) :
           /\ sources(tree)[i].kind = "Error"
           /\ sources(tree)[j].kind = "Tree"
    /\ out = render_tree(tree)

(***************************************************************************)
(* C17: the Debug format of a Mishap is its tree rendering                 *)
(***************************************************************************)

\* C17: formatting a Mishap with the non-alternate Debug format produces
\* exactly the text of its display_tree rendering: the root message and, when
\* it has sources, the banner and all nested sources.
C17_DebugIsTreeRendering ==
    pc = "shown" =>
        /\ dbg = out
        /\ IsPrefix(impl_display(mishap), dbg)
        /\ impl_sources(mishap) = <<>> <=> dbg = impl_display(mishap)

\* A Mishap with at least two sources, one of them with sources of its own,
\* has been formatted.
C17_Witness ==
    /\ pc = "shown"
    /\ Len(impl_sources(mishap)) >= 2
    /\ \E i \in 1..Len(impl_sources(mishap)) : sources(impl_sources(mishap)[i]) # <<>>
    /\ Len(dbg) > Len(impl_display(mishap))

(***************************************************************************)
(* C18: from_borrowed_tree clones a tree by its displayed strings          *)
(***************************************************************************)

Spaces(n) == [i \in 1..n |-> " "]

RECURSIVE MessagesOf(_)
\* The messages of the nodes of a tree.
MessagesOf(t) == { t.msg } \cup UNION { MessagesOf(t.sources[i]) : i \in 1..Len(t.sources) }

\* The message of several lines of the tree rendered.
LinesMessage == CHOOSE m \in MessagesOf(tree) : PosNewline(m, 1) # 0

\* The index, among the lines of the rendering, of the bullet line that
\* shows the first line of the message of several lines.
BulletLine ==
    CHOOSE k \in 1..Len(Lines(out)) :
        /\ IsBullet(Lines(out)[k])
        /\ BulletOf(Lines(out)[k]).text = FirstLine(LinesMessage)

\* Is the bullet of the message of several lines followed by the other lines
\* of the message, each as cont(indentation of the bullet, line) gives it?
ContinuationLines(cont(_, _)) ==
    LET ls   == Lines(out)
        ml   == Lines(LinesMessage)
        k    == BulletLine
        lead == BulletOf(ls[k]).indent
    IN  /\ \E j \in 1..Len(ls) :
              IsBullet(ls[j]) /\ BulletOf(ls[j]).text = FirstLine(LinesMessage)
        /\ lead >= Len(Indent2)
        /\ Len(ls) >= k + Len(ml) - 1
        /\ \A j \in 2..Len(ml) : ls[k + j - 1] = cont(lead, ml[j])

\* Every line after the first is prefixed.
Prefixed(lead, line) == Spaces(lead + 2) \o line

\* A line with text is prefixed, an empty line stays empty.
PrefixedUnlessEmpty(lead, line) == IF line = <<>> THEN <<>> ELSE Prefixed(lead, line)

\* C19 as stated: under the bullet of a message of several lines, every
\* further line of the message is prefixed with the bullet's indentation plus
\* two spaces, at every depth, for tree nodes and chain links, in Single and
\* in Multi state.
C19_EveryLinePrefixed == pc = "rendered" => ContinuationLines(Prefixed)

\* C19, amended: under the bullet of a message of several lines, every
\* further line of the message that has text is prefixed with the bullet's
\* indentation plus two spaces, so that it aligns under the first line's
\* text, and an empty line of the message is written empty, without prefix;
\* at every depth, for tree nodes and chain links, in Single and in Multi
\* state.
C19_LinesWithTextPrefixed == pc = "rendered" => ContinuationLines(PrefixedUnlessEmpty)

\* A message with an empty line has been rendered on a nested chain link in
\* Multi state (the link is the cause of one of several sources).
C19_Witness ==
    /\ pc = "rendered"
    /\ LinesMessage = BlankLine
    /\ Len(sources(tree)) > 1
    /\ \E i \in 1..Len(sources(tree)) :
           /\ sources(tree)[i].kind = "Error"
           /\ source(sources(tree)[i]) # <<>>
           /\ display(source(sources(tree)[i])[1]) = BlankLine
    /\ Lines(out)[BulletLine + 1] = <<>>

(***************************************************************************)
(* C20: a leaf chain through the source displayer and through ErrorWrapper *)
(***************************************************************************)

\* C20: the text of a leaf chain rendered through the source displayer is
\* the text of the same chain rendered as an error tree (ErrorWrapper)
\* without the blank line after "Caused by:": same root line, same banner,
\* same "- " bullets in the same order and at the same indentation.
C20_SourceDisplayerAgrees ==
    (out # NoText /\ sout # NoText) =>
        IF source(obj) = <<>> THEN out = sout
        ELSE LET head == display(obj) \o CausedByError
                 body == SubSeq(out, Len(head) + 1, Len(out))
             IN  /\ IsPrefix(head, out)
                 /\ sout = head \o <<"\n">> \o body

(***************************************************************************)
(* C21: the rendering determines the canonical tree                        *)
(***************************************************************************)

\* The bullet that is the parent of bullet i (0: the root): a "-" line is the
\* only source of the line before it, a "+" line belongs to the nearest
\* preceding line one level (two spaces) less indented, or to the root.
ParentOf(B, i) ==
    IF B[i].glyph = "-" THEN i - 1
    ELSE LET up == { j \in 1..(i - 1) : B[j].indent = B[i].indent - Len(Indent2) }
         IN  IF up = {} THEN 0 ELSE CHOOSE j \in up : \A k \in up : k <= j

RECURSIVE ReadNode(_, _, _), ReadSources(_, _, _)
\* The canonical tree read back from the bullets B for the node of bullet p
\* with message m.
ReadNode(B, p, m) == from_msg_and_sources(m, ReadSources(B, p, p + 1))

\* The sources of bullet p among the bullets from i on, in the order written.
ReadSources(B, p, i) ==
    IF i > Len(B) THEN <<>>
    ELSE (IF ParentOf(B, i) = p THEN <<ReadNode(B, i, B[i].text)>> ELSE <<>>)
         \o ReadSources(B, p, i + 1)

\* The canonical tree read back from a rendering.
ReadBack(text) == ReadNode(Bullets(text), 0, Lines(text)[1])

\* C21: for two error trees whose messages are single lines, if their
\* canonical trees differ then their display_tree outputs differ; and the
\* canonical tree of a tree is recovered from its output by taking each "-"
\* line as the only source of the line before it and each "+" line as a
\* source of the nearest preceding node one level up.
C21_RenderingDeterminesTree ==
    pc = "rendered" =>
        /\ StringErrorTree_new(tree) # StringErrorTree_new(obj) => out # sout
        /\ ReadBack(out) = StringErrorTree_new(tree)

\* Two rendered trees of the same messages and different shape: in one the
\* root has two sources, the second with a cause; in the other the root has
\* one source with two sources.
C21_Witness ==
    /\ pc = "rendered"
    /\ display(tree) = display(obj)
    /\ Len(sources(tree)) = 2
    /\ sources(tree)[1].sources = <<>>
    /\ Len(sources(tree)[2].sources) = 1
    /\ Len(sources(obj)) = 1
    /\ Len(sources(obj)[1].sources) = 2
    /\ out # sout

(***************************************************************************)
(* C22: what the indentation tells about the forks of a tree               *)
(***************************************************************************)

RECURSIVE Shape(_)
\* The fan-out structure of a canonical tree: the tree without its messages.
Shape(st) == [i \in 1..Len(st.sources) |-> Shape(st.sources[i])]

\* The indentations of the bullet lines of a rendering, in order.
Indentations(text) ==
    LET B == Bullets(text) IN [i \in 1..Len(B) |-> B[i].indent]

\* The glyphs and indentations of the bullet lines of a rendering, in order.
Marks(text) ==
    LET B == Bullets(text) IN [i \in 1..Len(B) |-> <<B[i].glyph, B[i].indent>>]

DifferentShape == Shape(StringErrorTree_new(tree)) # Shape(StringErrorTree_new(obj))

\* C22 as stated: two error trees whose fan-out structure differs render to
\* different sequences of bullet-line indentations.
C22_IndentationAloneTellsForks ==
    (pc = "rendered" /\ DifferentShape) => Indentations(out) # Indentations(sout)

\* C22, amended: two error trees whose fan-out structure differs render to
\* different sequences of bullet-line glyphs and indentations; the
\* indentations alone may coincide.
C22_GlyphsAndIndentationTellForks ==
    (pc = "rendered" /\ DifferentShape) => Marks(out) # Marks(sout)

\* A root with one source that has one cause and a root with two sources
\* have been rendered: the same indentations, told apart by the glyphs.
C22_Witness ==
    /\ pc = "rendered"
    /\ Len(sources(tree)) = 1
    /\ Len(sources(tree)[1].sources) = 1
    /\ Len(sources(obj)) = 2
    /\ DifferentShape
    /\ Indentations(out) = Indentations(sout)
    /\ Marks(out) # Marks(sout)

(***************************************************************************)
(* C23: the sequence length Ser announces                                  *)
(***************************************************************************)

\* C23: whatever size hint the sources() iterator reports, the length Ser
\* announces to the serializer for a node's "sources" field equals the
\* number of elements it then serializes into that sequence.
C23_AnnouncedLengthIsCount ==
    \A i \in 1..Len(seqs) : seqs[i].len = seqs[i].elements

====
